---- MODULE Spec2Model ----
(***************************************************************************)
(* A model of imtjson20: the json::Value union, the incremental            *)
(* Serializer<format> and the incremental Parser<Fn, format> for the text  *)
(* and the binary (TLV) encodings, with the one-shot wrappers stringify,   *)
(* binarize, parse and unbinarize.                                         *)
(*                                                                         *)
(* Bytes are the integers 0..255; a string is a sequence of bytes.         *)
(* A double is kept as its eight IEEE-754 bytes in the byte order of a     *)
(* little-endian host (the binary format copies the raw memory).           *)
(***************************************************************************)
EXTENDS Integers, Sequences, FiniteSets, TLC

VARIABLES
    p,          \* the Parser object: fmt, _state, the chunk, _pos, _result, _is_error
    pc,         \* where the caller is: "idle", "writing", "spin" (inside a write()
                \* that does not return), and in a one-shot wrapper "serialize",
                \* "call", "returned"
    ret,        \* what the last completed write() returned
    input,      \* the bytes the caller is going to feed
    fed,        \* how many bytes of input have been handed to write() so far
    nwrites,    \* how many write() calls have been started
    proto,      \* TRUE while the caller never called write() after a FALSE return
    ser,        \* the Serializer object: fmt, _stack, _out_buff
    sval,       \* the Value the serializer was constructed from
    sout,       \* concatenation of the chunks read() has returned so far
    chunks,     \* the chunks read() has returned so far, in order
    val,        \* the Value a one-shot wrapper is applied to
    bytes,      \* the byte string a one-shot wrapper is applied to
    outcome,    \* what the one-shot wrappers produced
    recv,       \* the Value the container operations are called on
    op,         \* the last container operation: its name, arguments and result
    hnd,        \* the Value handles of a caller: a type tag and the heap block held
    store,      \* the heap blocks of containers: the elements each one holds
    blk,        \* one heap block shared by threads: _refcnt and what happened to it
    thr         \* per thread: the handles it holds and where it is in a copy or a drop

vars == <<p, pc, ret, input, fed, nwrites, proto, ser, sval, sout, chunks,
          val, bytes, outcome, recv, op, hnd, store, blk, thr>>

\* The element of a one-element set.  Only({e : x \in {v}}) is e with x
\* standing for the value of v, which is computed once however often e
\* refers to x.
Only(S) == CHOOSE x \in S : TRUE

(***************************************************************************)
(* Characters                                                              *)
(***************************************************************************)
LBRACKET == 91
RBRACKET == 93
LBRACE == 123
RBRACE == 125
QUOTE == 34
COMMA == 44
COLON == 58
BACKSLASH == 92
MINUS == 45
PLUS == 43
DOT == 46
SPACE == 32
CH_0 == 48
CH_1 == 49
CH_9 == 57
CH_a == 97
CH_b == 98
CH_e == 101
CH_E == 69
CH_f == 102
CH_n == 110
CH_r == 114
CH_t == 116
CH_u == 117
SLASH == 47

infinity == <<226, 136, 158>>
neg_infinity == <<MINUS, 226, 136, 158>>
true_value == <<116, 114, 117, 101>>
false_value == <<102, 97, 108, 115, 101>>
null_value == <<110, 117, 108, 108>>
undefined_value == <<40, 117, 110, 100, 101, 102, 105, 110, 101, 100, 41>>

(***************************************************************************)
(* BinaryType                                                              *)
(***************************************************************************)
BT_null == 0
BT_bool_true == 1
BT_bool_false == 2
BT_double_number == 3
BT_undefined == 7
BT_p_number == 16
BT_n_number == 24
BT_string == 32
BT_string_number == 40
BT_array == 48
BT_object == 56

(***************************************************************************)
(* json::Value                                                             *)
(***************************************************************************)
Undefined == [t |-> "undefined"]
Null == [t |-> "null"]
Bool(b) == [t |-> "boolean", b |-> b]
\* st is the storage: "int32", "uint32", "int64" or "uint64"
IntV(st, n) == [t |-> "int", st |-> st, n |-> n]
Dbl(bits) == [t |-> "dnum", bits |-> bits]
\* Value(std::string_view, bool is_number)
Str(s, is_number) == [t |-> "string", num |-> is_number, s |-> s]
Arr(a) == [t |-> "array", a |-> a]
KeyValue(k, v) == [key |-> k, value |-> v]

RECURSIVE SeqLess(_, _)
\* std::string_view operator< : lexicographic comparison of the bytes
SeqLess(a, b) ==
    IF b = <<>> THEN FALSE
    ELSE IF a = <<>> THEN TRUE
    ELSE IF a[1] # b[1] THEN a[1] < b[1]
    ELSE SeqLess(Tail(a), Tail(b))

RECURSIVE InsertSorted(_, _)
\* one insertion of std::sort's insertion sort: kv goes behind every entry
\* whose key is not greater than its own
InsertSorted(sorted, kv) ==
    IF sorted = <<>> THEN <<kv>>
    ELSE LET last == sorted[Len(sorted)] IN
         IF SeqLess(kv.key, last.key)
         THEN Append(InsertSorted(SubSeq(sorted, 1, Len(sorted) - 1), kv), last)
         ELSE Append(sorted, kv)

RECURSIVE SortFrom(_, _, _)
SortFrom(o, i, acc) ==
    IF i > Len(o) THEN acc ELSE SortFrom(o, i + 1, InsertSorted(acc, o[i]))

\* a sort_object that leaves the container as it was handed over
sort_object_none(o) == o

\* Value::sort_object: std::sort by key (for the sizes modelled, an insertion sort)
sort_object(o) == SortFrom(o, 1, <<>>)

\* Value(std::vector<KeyValue>): init_object sorts the entries
Obj(o) == [t |-> "object", o |-> sort_object(o)]

defined(v) == v.t # "undefined"

\* Value::type(): the logical type
type(v) ==
    CASE v.t = "int" -> "number"
      [] v.t = "dnum" -> "number"
      [] v.t = "string" -> IF v.num THEN "number" ELSE "string"
      [] OTHER -> v.t

\* the alternative Value::visit hands to the visitor
Alternative(v) ==
    CASE v.t = "int" -> v.st
      [] v.t = "string" -> "string_view"
      [] OTHER -> v.t

\* Value::get_string()
get_string(v) ==
    CASE v.t = "string" -> v.s
      [] v.t = "boolean" -> IF v.b THEN true_value ELSE false_value
      [] v.t = "null" -> null_value
      [] v.t = "undefined" -> undefined_value
      [] OTHER -> <<>>

(***************************************************************************)
(* doubles: the eight bytes, least significant first                       *)
(***************************************************************************)
DExponent(bits) == (bits[8] % 128) * 16 + (bits[7] \div 16)
DMantissaZero(bits) == (bits[7] % 16 = 0) /\ (\A i \in 1..6 : bits[i] = 0)
DNegative(bits) == bits[8] >= 128
isnan(bits) == DExponent(bits) = 2047 /\ ~DMantissaZero(bits)
isfinite(bits) == DExponent(bits) # 2047
DIsZero(bits) == DExponent(bits) = 0 /\ DMantissaZero(bits)
\* operator== of double
DoubleEq(x, y) ==
    IF isnan(x) \/ isnan(y) THEN FALSE
    ELSE IF DIsZero(x) /\ DIsZero(y) THEN TRUE
    ELSE x = y

\* an operator== that compares the two Values member by member
ValEq_memberwise(a, b) == a = b

RECURSIVE ValEq(_, _)
\* Value::operator== : false for undefined, false for different visited
\* alternatives, else the comparison of the alternative.  The containers
\* compared here never share one heap block.
ValEq(a, b) ==
    IF a.t = "undefined" \/ b.t = "undefined" THEN FALSE
    ELSE IF Alternative(a) # Alternative(b) THEN FALSE
    ELSE CASE a.t = "null" -> TRUE
           [] a.t = "boolean" -> a.b = b.b
           [] a.t = "int" -> a.n = b.n
           [] a.t = "dnum" -> DoubleEq(a.bits, b.bits)
           [] a.t = "string" -> a.s = b.s
           [] a.t = "array" ->
                /\ Len(a.a) = Len(b.a)
                /\ \A i \in 1..Len(a.a) : ValEq(a.a[i], b.a[i])
           [] a.t = "object" ->
                /\ Len(a.o) = Len(b.o)
                /\ \A i \in 1..Len(a.o) :
                      /\ a.o[i].key = b.o[i].key
                      /\ ValEq(a.o[i].value, b.o[i].value)

(***************************************************************************)
(* Serializer<format>                                                      *)
(* A frame of _stack is a Value still to render, or a cursor (pos, end)    *)
(* into an array or an object: the container's elements c and the index    *)
(* pos of the next one.                                                    *)
(***************************************************************************)
\* negation tells what the build makes of -v when v is the lowest int, which
\* no int holds: "wraps" gives v back, "widens" computes in 64 bits
Serializer(fmt, v) ==
    [fmt |-> fmt, stack |-> <<[k |-> "Value", v |-> v]>>, out |-> <<>>,
     negation |-> "wraps", custom_values |-> <<>>, to_json_calls |-> <<>>]

Emit(s, bs) == [s EXCEPT !.out = @ \o bs]
PushFrame(s, f) == [s EXCEPT !.stack = Append(@, f)]
PopFrame(s) == [s EXCEPT !.stack = SubSeq(@, 1, Len(@) - 1)]

RECURSIVE BigEndian(_, _)
BigEndian(size, count) ==
    IF count = 0 THEN <<>>
    ELSE Append(BigEndian(size \div 256, count - 1), size % 256)

\* a std::uint64_t is its eight bytes, the highest first.
\* static_cast<std::uint64_t>(n) of an n that is not negative
uint64_t(n) == BigEndian(n, 8)

INT_MIN == -2147483647 - 1
\* static_cast<std::uint64_t>(-v) of a negative v of the type T.  -v is
\* computed in T: for the lowest int it overflows, and the behaviour is
\* undefined
negated_uint64_t(s, v) ==
    IF v.n # INT_MIN THEN uint64_t(-v.n)
    ELSE IF v.st = "int32" /\ s.negation = "wraps"
    THEN <<255, 255, 255, 255, 128, 0, 0, 0>>
    ELSE <<0, 0, 0, 0, 128, 0, 0, 0>>

\* how many bytes hold size: the loop that adds bool(tmp > 0) and shifts
\* tmp by a byte, eight times
CountBytes(size) == Cardinality({i \in 1..8 : \E j \in 1..i : size[j] # 0})

\* Serializer::render_binary_type_size
render_binary_type_size(s, tag, size) ==
    LET c == CountBytes(size)
        count_bytes == IF c < 1 THEN 1 ELSE c
    IN Emit(s, <<tag + (count_bytes - 1)>> \o SubSeq(size, 9 - count_bytes, 8))

RECURSIVE Decimal(_)
\* render_unsigned_number for val # 0: the decimal digits
Decimal(n) == IF n = 0 THEN <<>> ELSE Append(Decimal(n \div 10), CH_0 + (n % 10))

render_unsigned_number(n) == IF n = 0 THEN <<CH_0>> ELSE Decimal(n)

\* a rendering that drops the sign in the binary format
render_item_int_p_number(s, v) ==
    IF s.fmt = "text"
    THEN IF v.n < 0
         THEN Emit(s, <<MINUS>> \o render_unsigned_number(-v.n))
         ELSE Emit(s, render_unsigned_number(v.n))
    ELSE render_binary_type_size(s, BT_p_number,
                                 IF v.n < 0 THEN negated_uint64_t(s, v) ELSE uint64_t(v.n))

\* Serializer::render_item(const T &, Type) for the integral types
render_item_int(s, v) ==
    IF s.fmt = "text"
    THEN IF v.n < 0
         THEN Emit(s, <<MINUS>> \o render_unsigned_number(-v.n))
         ELSE Emit(s, render_unsigned_number(v.n))
    ELSE IF v.n < 0
         THEN render_binary_type_size(s, BT_n_number, negated_uint64_t(s, v))
         ELSE render_binary_type_size(s, BT_p_number, uint64_t(v.n))

HexDigit(n) == IF n < 10 THEN CH_0 + n ELSE 55 + n

\* an encode whose char is unsigned and which escapes every byte that is no
\* ASCII character
encode_char_ascii(c) ==
    IF c >= 128
    THEN <<BACKSLASH, CH_u, CH_0, CH_0, HexDigit(c \div 16), HexDigit(c % 16)>>
    ELSE <<c>>

\* Serializer::encode, one character
encode_char(c) ==
    CASE c = QUOTE -> <<BACKSLASH, QUOTE>>
      [] c = BACKSLASH -> <<BACKSLASH, BACKSLASH>>
      [] c = 8 -> <<CH_b, BACKSLASH>>
      [] c = 12 -> <<BACKSLASH, CH_f>>
      [] c = 10 -> <<BACKSLASH, CH_n>>
      [] c = 13 -> <<BACKSLASH, CH_f>>
      [] c = 9 -> <<BACKSLASH, CH_t>>
      [] OTHER ->
           IF c < 32
           THEN <<BACKSLASH, CH_u, CH_0, CH_0, HexDigit(c \div 16), HexDigit(c % 16)>>
           ELSE <<c>>

RECURSIVE encode(_)
\* Serializer::encode
encode(text) ==
    IF text = <<>> THEN <<>> ELSE encode_char(text[1]) \o encode(Tail(text))

\* Serializer::render_item(std::string_view, Type)
render_item_string(s, str, ty) ==
    IF s.fmt = "text"
    THEN IF ty = "number"
         THEN Emit(s, str)
         ELSE Emit(s, <<QUOTE>> \o encode(str) \o <<QUOTE>>)
    ELSE Emit(render_binary_type_size(s,
                  IF ty = "number" THEN BT_string_number ELSE BT_string,
                  uint64_t(Len(str))),
              str)

\* Serializer::render_key
render_key(s, key) == render_item_string(s, key, "string")

\* Serializer::render_item(std::nullptr_t, Type)
render_item_null(s) ==
    IF s.fmt = "text" THEN Emit(s, null_value) ELSE Emit(s, <<BT_null>>)

\* Serializer::render_item(Undefined, Type)
render_item_undefined(s) ==
    IF s.fmt = "text" THEN render_item_null(s) ELSE Emit(s, <<BT_undefined>>)

\* Serializer::render_item(bool, Type)
render_item_bool(s, b) ==
    IF s.fmt = "text"
    THEN Emit(s, IF b THEN true_value ELSE false_value)
    ELSE Emit(s, <<IF b THEN BT_bool_true ELSE BT_bool_false>>)

\* The finite doubles modelled are those with the low six bytes zero and a
\* binary exponent in -2..8: (16 + m) * 2^(e - 4), m the top mantissa nibble.
\* DScaled is the value times 64.
DPow2(n) == 2 ^ n
DScaled(bits) == (16 + (bits[7] % 16)) * DPow2(DExponent(bits) - 1023 + 2)

RECURSIVE FractionDigits(_, _)
\* the loop printing up to 12 fractional digits of fr = r / 64
FractionDigits(r, i) ==
    IF i >= 12 \/ r = 0 THEN <<>>
    ELSE <<CH_0 + ((r * 10) \div 64)>> \o FractionDigits((r * 10) % 64, i + 1)

\* Serializer::render_item(double, Type)
render_item_double(s, bits) ==
    IF s.fmt = "text"
    THEN IF isnan(bits) THEN render_item_null(s)
         ELSE IF ~isfinite(bits)
         THEN Emit(s, <<QUOTE>> \o (IF DNegative(bits) THEN neg_infinity ELSE infinity)
                        \o <<QUOTE>>)
         ELSE LET sign == IF DNegative(bits) /\ ~DIsZero(bits) THEN <<MINUS>> ELSE <<>> IN
              IF DExponent(bits) = 0 THEN Emit(s, sign \o <<CH_0>>)
              ELSE LET v == DScaled(bits) IN
                   Emit(s, sign \o render_unsigned_number(v \div 64)
                           \o (IF v % 64 # 0 THEN <<DOT>> \o FractionDigits(v % 64, 0)
                               ELSE <<>>))
    ELSE Emit(s, <<BT_double_number>> \o bits)

\* the loop of render_item(Container) without its test of defined()
FirstRendered_any(fmt, values, i) == IF i > Len(values) THEN 0 ELSE i

RECURSIVE FirstRendered_defined(_, _, _)
\* the loop of render_item(Container) testing defined() in both formats
FirstRendered_defined(fmt, values, i) ==
    IF i > Len(values) THEN 0
    ELSE IF defined(values[i]) THEN i
    ELSE FirstRendered_defined(fmt, values, i + 1)

RECURSIVE FirstRendered(_, _, _)
\* the loop of render_item(Container): the index of the first element that is
\* rendered (binary: the first; text: the first defined), 0 when there is none
FirstRendered(fmt, values, i) ==
    IF i > Len(values) THEN 0
    ELSE IF fmt = "binary" \/ defined(values[i]) THEN i
    ELSE FirstRendered(fmt, values, i + 1)

ObjectValues(o) == [i \in 1..Len(o) |-> o[i].value]

RECURSIVE render_value(_, _)

\* Serializer::render_item(const Container<Value> &, Type)
render_item_array(s, a) ==
    LET s1 == IF s.fmt = "text" THEN Emit(s, <<LBRACKET>>)
              ELSE render_binary_type_size(s, BT_array, uint64_t(Len(a)))
        i == FirstRendered(s.fmt, a, 1)
    IN IF i = 0
       THEN IF s.fmt = "text" THEN Emit(s1, <<RBRACKET>>) ELSE s1
       ELSE render_value(PushFrame(s1, [k |-> "StateArray", c |-> a, pos |-> i + 1]), a[i])

\* Serializer::render_item(const Container<KeyValue> &, Type)
render_item_object(s, o) ==
    LET s1 == IF s.fmt = "text" THEN Emit(s, <<LBRACE>>)
              ELSE render_binary_type_size(s, BT_object, uint64_t(Len(o)))
        i == FirstRendered(s.fmt, ObjectValues(o), 1)
    IN IF i = 0
       THEN IF s.fmt = "text" THEN Emit(s1, <<RBRACE>>) ELSE s1
       ELSE LET s2 == render_key(s1, o[i].key)
                s3 == IF s.fmt = "text" THEN Emit(s2, <<COLON>>) ELSE s2
            IN render_value(PushFrame(s3, [k |-> "StateObject", c |-> o, pos |-> i + 1]),
                            o[i].value)

\* a custom value is the number that tells its object from the others
Custom(id) == [t |-> "custom", id |-> id]

\* AbstractCustomValue::to_json, overridden by the objects 1 and 3: an array,
\* the null of the default, and an object holding the objects 1 and 2
to_json(id) ==
    CASE id = 1 -> Arr(<<IntV("int32", 1), Str(<<CH_a>>, FALSE)>>)
      [] id = 2 -> Null
      [] id = 3 -> Obj(<<KeyValue(<<CH_a>>, Custom(1)), KeyValue(<<CH_b>>, Custom(2))>>)

\* a render_item that asks the custom value every time
render_item_custom_uncached(s, id) ==
    render_value([s EXCEPT !.to_json_calls = Append(@, id)], to_json(id))

\* Serializer::render_item(const AbstractCustomValue &, Type); to_json_calls
\* are the objects whose to_json() was called, call after call
render_item_custom(s, id) ==
    LET s1 == IF id \in DOMAIN s.custom_values THEN s
              ELSE [s EXCEPT !.custom_values = @ @@ (id :> to_json(id)),
                             !.to_json_calls = Append(@, id)]
    IN render_value(s1, s1.custom_values[id])

\* Serializer::render_value: visit and dispatch to render_item
render_value(s0, v0) ==
    Only({CASE v.t = "undefined" -> render_item_undefined(s)
            [] v.t = "null" -> render_item_null(s)
            [] v.t = "boolean" -> render_item_bool(s, v.b)
            [] v.t = "int" -> render_item_int(s, v)
            [] v.t = "dnum" -> render_item_double(s, v.bits)
            [] v.t = "string" -> render_item_string(s, v.s, type(v))
            [] v.t = "array" -> render_item_array(s, v.a)
            [] v.t = "object" -> render_item_object(s, v.o)
            [] v.t = "custom" -> render_item_custom(s, v.id)
          : s \in {s0}, v \in {v0}})

RECURSIVE next(_)
\* Serializer::next
next(s0) ==
    Only({(
        IF s.stack = <<>> THEN s
        ELSE LET st == s.stack[Len(s.stack)] IN
          CASE st.k = "Value" -> render_value(PopFrame(s), st.v)
            [] st.k = "StateObject" ->
                 IF st.pos > Len(st.c)
                 THEN next(PopFrame(IF s.fmt = "text" THEN Emit(s, <<RBRACE>>) ELSE s))
                 ELSE LET kv == st.c[st.pos]
                          s1 == [s EXCEPT !.stack[Len(s.stack)].pos = st.pos + 1]
                      IN IF s.fmt = "text" /\ ~defined(kv.value) THEN next(s1)
                         ELSE LET s2 == IF s.fmt = "text" THEN Emit(s1, <<COMMA>>) ELSE s1
                                  s3 == render_key(s2, kv.key)
                                  s4 == IF s.fmt = "text" THEN Emit(s3, <<COLON>>) ELSE s3
                              IN render_value(s4, kv.value)
            [] st.k = "StateArray" ->
                 IF st.pos > Len(st.c)
                 THEN next(PopFrame(IF s.fmt = "text" THEN Emit(s, <<RBRACKET>>) ELSE s))
                 ELSE LET v == st.c[st.pos]
                          s1 == [s EXCEPT !.stack[Len(s.stack)].pos = st.pos + 1]
                      IN IF s.fmt = "text" /\ ~defined(v) THEN next(s1)
                         ELSE render_value(IF s.fmt = "text" THEN Emit(s1, <<COMMA>>) ELSE s1, v)
        ) : s \in {s0}})

\* read() that forgets _out_buff.clear()
read_without_clear(s) == next(s)

\* Serializer::read: clear the buffer, run next(), return the buffer
read(s) == next([s EXCEPT !.out = <<>>])

RECURSIVE Drain(_, _)
\* the loop of stringify and binarize: append chunks until an empty one
Drain(s, retval) ==
    Only({IF s1.out = <<>> THEN retval ELSE Drain(s1, retval \o s1.out)
          : s1 \in {read(s)}})

stringify(v) == Drain(Serializer("text", v), <<>>)
binarize(v) == Drain(Serializer("binary", v), <<>>)

(***************************************************************************)
(* Parser<Fn, format>                                                      *)
(* The object: fmt (the template argument), state (_state, top last),      *)
(* text and pos (the chunk of the current write() and _pos as an index     *)
(* into it; _end is Len(text) + 1), result (_result), is_error.            *)
(* A handler returns the object and its answer "need more input".          *)
(***************************************************************************)
DetectType == [k |-> "DetectType"]
StateString == [k |-> "StateString", escape |-> FALSE, data |-> <<>>]
StateNumber == [k |-> "StateNumber", data |-> <<>>]
StateCheck(what, result) == [k |-> "StateCheck", what |-> what, result |-> result, pos |-> 0]
StateArray == [k |-> "StateArray", data |-> <<>>]
StateObject == [k |-> "StateObject", reading_key |-> TRUE, key |-> <<>>, data |-> <<>>]
StateDoubleNumber == [k |-> "StateDoubleNumber", data |-> <<>>]
StateBinNumber(size, negative) ==
    [k |-> "StateBinNumber", size |-> size, negative |-> negative, accum |-> 0]
StateBinString(is_number) ==
    [k |-> "StateBinString", is_number |-> is_number, sz |-> 0, data |-> <<>>]
StateBinArray == [k |-> "StateBinArray", sz |-> 0, data |-> <<>>]
StateBinObject ==
    [k |-> "StateBinObject", reading_key |-> FALSE, key |-> <<>>, data |-> <<>>, sz |-> 0]

\* Parser::Parser(): one DetectType frame, _pos = _end, no result, no error
Parser(fmt) ==
    [fmt |-> fmt, state |-> <<DetectType>>, text |-> <<>>, pos |-> 1,
     result |-> Undefined, is_error |-> FALSE, fn |-> "empty", log |-> <<>>]
\* Parser::Parser(Fn &&preprocFn)
Parser_Fn(fmt, fn) == [Parser(fmt) EXCEPT !.fn = fn]

\* the preprocessor of a parser.  "empty" is ParserEmptyPreprocesor; "mark"
\* is a preprocessor of the caller that does not return what it is given:
\* null becomes false, false becomes true, true becomes null and an array
\* gets a null appended.
preproc(fn, v) ==
    IF fn = "empty" THEN v
    ELSE CASE v = [t |-> "null"] -> [t |-> "boolean", b |-> FALSE]
           [] v = [t |-> "boolean", b |-> FALSE] -> [t |-> "boolean", b |-> TRUE]
           [] v = [t |-> "boolean", b |-> TRUE] -> [t |-> "null"]
           [] v.t = "array" -> [t |-> "array", a |-> Append(v.a, [t |-> "null"])]
           [] OTHER -> v

AtEnd(q) == q.pos > Len(q.text)
Cur(q) == q.text[q.pos]
Adv(q) == [q EXCEPT !.pos = @ + 1]
Top(q) == q.state[Len(q.state)]
SetTop(q, f) == [q EXCEPT !.state[Len(q.state)] = f]
Push(q, f) == [q EXCEPT !.state = Append(@, f)]
Pop(q) == [q EXCEPT !.state = SubSeq(@, 1, Len(@) - 1)]
SetResult(q, v) == [q EXCEPT !.result = v]
SetError(q) == [q EXCEPT !.is_error = TRUE]
\* a parser that installs a value without handing it to the preprocessor
SetPreprocessed_skipped(q, v) == [q EXCEPT !.result = v]
\* _result = _preproc(v); log is what the preprocessor was called with, call
\* after call
SetPreprocessed(q, v) ==
    [q EXCEPT !.result = preproc(q.fn, v), !.log = Append(@, v)]
\* a handler's answer; spin: the handler never returns (it loops on one byte)
Answer(q, need_more) == [p |-> q, more |-> need_more, spin |-> FALSE]
Spinning(q) == [p |-> q, more |-> TRUE, spin |-> TRUE]

isspace(c) == c \in {32, 9, 10, 11, 12, 13}
isdigit(c) == CH_0 <= c /\ c <= CH_9

\* what a std::vector holds after its elements were moved out of it
MovedFromValues(data) == [i \in 1..Len(data) |-> Undefined]
MovedFromKeyValues(data) ==
    [i \in 1..Len(data) |-> KeyValue(undefined_value, Undefined)]

RECURSIVE SkipDigits(_, _)
SkipDigits(s, i) ==
    IF i <= Len(s) /\ isdigit(s[i]) THEN SkipDigits(s, i + 1) ELSE i

\* std::equal(beg, end, infinity.begin()): the run is compared with as many
\* bytes of the literal; a byte beyond the literal's three never matches
EqualsInfinityPrefix(s, i) ==
    \A j \in i..Len(s) : (j - i + 1) <= Len(infinity) /\ s[j] = infinity[j - i + 1]

\* is_valid_json_number
is_valid_json_number(s) ==
    IF s = <<>> THEN FALSE
    ELSE LET i1 == IF s[1] = MINUS THEN 2 ELSE 1 IN
      IF i1 > Len(s) THEN FALSE
      ELSE IF EqualsInfinityPrefix(s, i1) THEN TRUE
      ELSE IF s[i1] # CH_0 /\ ~isdigit(s[i1]) THEN FALSE
      ELSE LET i2 == IF s[i1] = CH_0 THEN i1 + 1 ELSE SkipDigits(s, i1)
               frac == i2 <= Len(s) /\ s[i2] = DOT
               fracBad == frac /\ (i2 + 1 > Len(s) \/ ~isdigit(s[i2 + 1]))
               i3 == IF frac THEN SkipDigits(s, i2 + 1) ELSE i2
               exp == i3 <= Len(s) /\ (s[i3] = CH_e \/ s[i3] = CH_E)
               i4 == IF exp /\ i3 + 1 <= Len(s) /\ (s[i3 + 1] = PLUS \/ s[i3 + 1] = MINUS)
                     THEN i3 + 2 ELSE i3 + 1
               expBad == exp /\ (i4 > Len(s) \/ ~isdigit(s[i4]))
               i5 == IF exp THEN SkipDigits(s, i4) ELSE i3
           IN IF fracBad THEN FALSE
              ELSE IF expBad THEN FALSE
              ELSE i5 = Len(s) + 1

\* a hex_to_int that knows no small letters
hex_to_int_capitals(hex) ==
    IF hex >= CH_0 /\ hex <= CH_9 THEN hex - CH_0
    ELSE IF hex >= 65 /\ hex <= 70 THEN hex - 65 + 10
    ELSE 0

\* _details::hex_to_int
hex_to_int(hex) ==
    IF hex >= CH_0 /\ hex <= CH_9 THEN hex - CH_0
    ELSE IF hex >= 65 /\ hex <= 70 THEN hex - 65 + 10
    ELSE IF hex >= CH_a /\ hex <= CH_f THEN hex - CH_a + 10
    ELSE 0

RECURSIVE ReadHex(_, _, _, _)
\* for (i = 0; i < 4 && it != end; ++i) codepoint = codepoint << 4 | hex_to_int(*it++)
ReadHex(buf, it, i, codepoint) ==
    IF i < 4 /\ it <= Len(buf)
    THEN ReadHex(buf, it + 1, i + 1, codepoint * 16 + hex_to_int(buf[it]))
    ELSE [codepoint |-> codepoint, it |-> it]

\* the UTF-8 bytes decode_json_string stores for a code point
Utf8(cp) ==
    IF cp <= 127 THEN <<cp>>
    ELSE IF cp <= 2047 THEN <<192 + ((cp \div 64) % 32), 128 + (cp % 64)>>
    ELSE IF cp <= 65535
    THEN <<224 + ((cp \div 4096) % 16), 128 + ((cp \div 64) % 64), 128 + (cp % 64)>>
    ELSE IF cp <= 1114111
    THEN <<240 + ((cp \div 262144) % 8), 128 + ((cp \div 4096) % 64),
           128 + ((cp \div 64) % 64), 128 + (cp % 64)>>
    ELSE <<>>

\* store bs into buf from index out on (*output++ = ...)
Store(buf, out, bs) ==
    [i \in 1..Len(buf) |-> IF i >= out /\ i < out + Len(bs) THEN bs[i - out + 1] ELSE buf[i]]

RECURSIVE DecodeFrom(_, _, _)
\* decode_json_string run in place: it reads buf at index it and writes at
\* index out; the answer is the buffer and the final output position
DecodeFrom(buf_in, it, out) ==
    Only({(
        IF it > Len(buf) THEN [buf |-> buf, out |-> out]
        ELSE IF buf[it] # BACKSLASH THEN DecodeFrom(Store(buf, out, <<buf[it]>>), it + 1, out + 1)
        ELSE IF it + 1 > Len(buf) THEN [buf |-> buf, out |-> out]
        ELSE LET c == buf[it + 1] IN
          CASE c \in {QUOTE, BACKSLASH, SLASH} -> DecodeFrom(Store(buf, out, <<c>>), it + 2, out + 1)
            [] c = CH_b -> DecodeFrom(Store(buf, out, <<8>>), it + 2, out + 1)
            [] c = CH_f -> DecodeFrom(Store(buf, out, <<12>>), it + 2, out + 1)
            [] c = CH_n -> DecodeFrom(Store(buf, out, <<10>>), it + 2, out + 1)
            [] c = CH_r -> DecodeFrom(Store(buf, out, <<13>>), it + 2, out + 1)
            [] c = CH_t -> DecodeFrom(Store(buf, out, <<9>>), it + 2, out + 1)
            [] c = CH_u ->
                 LET h1 == ReadHex(buf, it + 2, 0, 0) IN
                 IF h1.codepoint >= 55296 /\ h1.codepoint <= 56319
                 THEN IF h1.it > Len(buf) \/ buf[h1.it] # BACKSLASH
                      THEN [buf |-> buf, out |-> out]
                      ELSE IF h1.it + 1 > Len(buf) \/ buf[h1.it + 1] # CH_u
                      THEN [buf |-> buf, out |-> out]
                      ELSE LET h2 == ReadHex(buf, h1.it + 2, 0, 0)
                               cp == 65536 + ((h1.codepoint - 55296) * 1024)
                                           + (h2.codepoint - 56320)
                               bs == Utf8(cp)
                           IN DecodeFrom(Store(buf, out, bs), h2.it,
                                         out + (IF bs = <<>> THEN 1 ELSE Len(bs)))
                 ELSE LET bs == Utf8(h1.codepoint) IN
                      DecodeFrom(Store(buf, out, bs), h1.it,
                                 out + (IF bs = <<>> THEN 1 ELSE Len(bs)))
            [] OTHER -> DecodeFrom(buf, it + 2, out + 1)
        ) : buf \in {buf_in}})

\* decode_json_string over st._data, then st._data.resize
decode_json_string(data) ==
    LET d == DecodeFrom(data, 1, 1) IN SubSeq(d.buf, 1, d.out - 1)

RECURSIVE SkipSpace(_)
SkipSpace(q_in) ==
    Only({(
        IF ~AtEnd(q) /\ isspace(Cur(q)) THEN SkipSpace(Adv(q)) ELSE q
        ) : q \in {q_in}})

\* Parser::parse_state(DetectType &), format == Format::text
parse_state_DetectType_text(q0_in) ==
    Only({(
        IF AtEnd(q0) THEN Answer(q0, TRUE)
        ELSE LET q == SkipSpace(q0) IN
          IF AtEnd(q) THEN Answer(q, TRUE)
          ELSE LET c == Cur(q) IN
            CASE c = LBRACKET -> Answer(Adv(Push(q, StateArray)), TRUE)
              [] c = LBRACE -> Answer(Adv(Push(q, StateObject)), TRUE)
              [] c = QUOTE -> Answer(Adv(Push(q, StateString)), TRUE)
              [] c = CH_t -> Answer(Push(q, StateCheck(true_value, Bool(TRUE))), TRUE)
              [] c = CH_f -> Answer(Push(q, StateCheck(false_value, Bool(FALSE))), TRUE)
              [] c = CH_n -> Answer(Push(q, StateCheck(null_value, Null)), TRUE)
              [] isdigit(c) \/ c = MINUS \/ c = PLUS -> Answer(Push(q, StateNumber), TRUE)
              [] OTHER -> Answer(SetError(q), FALSE)
        ) : q0 \in {q0_in}})

\* Parser::parse_state(DetectType &), format == Format::binary
parse_state_DetectType_binary(q0_in) ==
    Only({(
        IF AtEnd(q0) THEN Answer(q0, TRUE)
        ELSE LET ty == Cur(q0)
                 q == Adv(q0)
                 maj == ty - (ty % 8)
                 sz == (ty % 8) + 1
             IN
          CASE maj = 0 ->
                 (CASE ty = BT_null -> Answer(SetPreprocessed(q, Null), FALSE)
                    [] ty = BT_bool_true -> Answer(SetPreprocessed(q, Bool(TRUE)), FALSE)
                    [] ty = BT_bool_false -> Answer(SetPreprocessed(q, Bool(FALSE)), FALSE)
                    [] ty = BT_double_number -> Answer(Push(q, StateDoubleNumber), TRUE)
                    [] OTHER -> Answer(SetPreprocessed(q, Undefined), FALSE))
            [] maj = BT_p_number -> Answer(Push(q, StateBinNumber(sz, FALSE)), TRUE)
            [] maj = BT_n_number -> Answer(Push(q, StateBinNumber(sz, TRUE)), TRUE)
            [] maj = BT_string ->
                 Answer(Push(Push(q, StateBinString(FALSE)), StateBinNumber(sz, FALSE)), TRUE)
            [] maj = BT_string_number ->
                 Answer(Push(Push(q, StateBinString(TRUE)), StateBinNumber(sz, FALSE)), TRUE)
            [] maj = BT_array ->
                 Answer(Push(Push(q, StateBinArray), StateBinNumber(sz, FALSE)), TRUE)
            [] maj = BT_object ->
                 Answer(Push(Push(q, StateBinObject), StateBinNumber(sz, FALSE)), TRUE)
            [] OTHER -> Answer(SetError(q), FALSE)
        ) : q0 \in {q0_in}})

RECURSIVE parse_state_StateString(_)
\* Parser::parse_state(StateString &)
parse_state_StateString(q_in) ==
    Only({(
        IF AtEnd(q) THEN Answer(q, TRUE)
        ELSE LET st == Top(q)
                 c == Cur(q)
             IN IF ~st.escape /\ c = QUOTE
                THEN LET d == decode_json_string(st.data) IN
                     Answer(SetResult(SetTop(Adv(q), [st EXCEPT !.data = d]), Str(d, FALSE)), FALSE)
                ELSE parse_state_StateString(
                         SetTop(Adv(q), [st EXCEPT !.escape = (~st.escape /\ c = BACKSLASH),
                                                   !.data = Append(@, c)]))
        ) : q \in {q_in}})

RECURSIVE parse_state_StateArray_lenient(_)
\* an Array state that takes a comma wherever it stands
parse_state_StateArray_lenient(q_in) ==
    Only({(
        IF AtEnd(q) THEN Answer(q, TRUE)
        ELSE LET st == Top(q)
                 c == Cur(q)
             IN IF isspace(c) THEN parse_state_StateArray_lenient(Adv(q))
                ELSE CASE c = COMMA -> Answer(Push(Adv(q), DetectType), TRUE)
                       [] c = RBRACKET ->
                            Answer(SetResult(SetTop(Adv(q),
                                       [st EXCEPT !.data = MovedFromValues(st.data)]),
                                   Arr(st.data)), FALSE)
                       [] c # COMMA /\ c # RBRACKET /\ st.data = <<>> ->
                            Answer(Push(q, DetectType), TRUE)
                       [] OTHER -> Answer(SetError(q), FALSE)
        ) : q \in {q_in}})

RECURSIVE parse_state_StateArray(_)
\* Parser::parse_state(StateArray &)
parse_state_StateArray(q_in) ==
    Only({(
        IF AtEnd(q) THEN Answer(q, TRUE)
        ELSE LET st == Top(q)
                 c == Cur(q)
             IN IF isspace(c) THEN parse_state_StateArray(Adv(q))
                ELSE CASE c = COMMA /\ st.data # <<>> -> Answer(Push(Adv(q), DetectType), TRUE)
                       [] c = RBRACKET ->
                            Answer(SetResult(SetTop(Adv(q),
                                       [st EXCEPT !.data = MovedFromValues(st.data)]),
                                   Arr(st.data)), FALSE)
                       [] c # COMMA /\ c # RBRACKET /\ st.data = <<>> ->
                            Answer(Push(q, DetectType), TRUE)
                       [] OTHER -> Answer(SetError(q), FALSE)
        ) : q \in {q_in}})

RECURSIVE parse_state_StateObject(_)
\* Parser::parse_state(StateObject &)
parse_state_StateObject(q_in) ==
    Only({(
        IF AtEnd(q) THEN Answer(q, TRUE)
        ELSE LET st == Top(q)
                 c == Cur(q)
             IN IF isspace(c) THEN parse_state_StateObject(Adv(q))
                ELSE CASE c = COMMA /\ st.reading_key /\ st.data # <<>> ->
                            Answer(Push(Adv(q), DetectType), TRUE)
                       [] c = COLON /\ ~st.reading_key -> Answer(Push(Adv(q), DetectType), TRUE)
                       [] c = RBRACE /\ st.reading_key ->
                            Answer(SetResult(SetTop(Adv(q),
                                       [st EXCEPT !.data = MovedFromKeyValues(st.data)]),
                                   Obj(st.data)), FALSE)
                       [] c \notin {COMMA, COLON, RBRACE} /\ st.reading_key /\ st.data = <<>> ->
                            Answer(Push(q, DetectType), TRUE)
                       [] OTHER -> Answer(SetError(q), FALSE)
        ) : q \in {q_in}})

RECURSIVE parse_state_StateCheck(_)
\* Parser::parse_state(StateCheck &)
parse_state_StateCheck(q_in) ==
    Only({(
        IF AtEnd(q) THEN Answer(q, TRUE)
        ELSE LET st == Top(q) IN
             IF st.what[st.pos + 1] = Cur(q)
             THEN LET q1 == SetTop(Adv(q), [st EXCEPT !.pos = @ + 1]) IN
                  IF st.pos + 1 = Len(st.what)
                  THEN Answer(SetResult(q1, st.result), FALSE)
                  ELSE parse_state_StateCheck(q1)
             ELSE Answer(SetError(q), FALSE)
        ) : q \in {q_in}})

IsNumberChar(c) == isdigit(c) \/ c = PLUS \/ c = MINUS \/ c = CH_e \/ c = CH_E \/ c = DOT

RECURSIVE parse_state_StateNumber_eager(_)
\* a Number state that takes the end of the chunk for the end of the number
parse_state_StateNumber_eager(q_in) ==
    Only({(
        LET st == Top(q) IN
        IF AtEnd(q)
        THEN IF is_valid_json_number(st.data)
             THEN Answer(SetResult(q, Str(st.data, TRUE)), FALSE)
             ELSE Answer(q, TRUE)
        ELSE LET c == Cur(q)
             IN IF IsNumberChar(c)
                THEN parse_state_StateNumber_eager(
                         SetTop(Adv(q), [st EXCEPT !.data = Append(@, c)]))
                ELSE IF is_valid_json_number(st.data)
                THEN Answer(SetResult(q, Str(st.data, TRUE)), FALSE)
                ELSE Spinning(q)
        ) : q \in {q_in}})

RECURSIVE parse_state_StateNumber_comma(_)
\* a Number state that takes a comma after the number with it
parse_state_StateNumber_comma(q_in) ==
    Only({(
        IF AtEnd(q) THEN Answer(q, TRUE)
        ELSE LET st == Top(q)
                 c == Cur(q)
             IN IF IsNumberChar(c)
                THEN parse_state_StateNumber_comma(
                         SetTop(Adv(q), [st EXCEPT !.data = Append(@, c)]))
                ELSE IF is_valid_json_number(st.data)
                THEN Answer(SetResult(IF c = COMMA THEN Adv(q) ELSE q, Str(st.data, TRUE)),
                            FALSE)
                ELSE Spinning(q)
        ) : q \in {q_in}})

RECURSIVE parse_state_StateNumber_greedy(_)
\* a Number state that steps over the byte that ends the number
parse_state_StateNumber_greedy(q_in) ==
    Only({(
        IF AtEnd(q) THEN Answer(q, TRUE)
        ELSE LET st == Top(q)
                 c == Cur(q)
             IN IF IsNumberChar(c)
                THEN parse_state_StateNumber_greedy(
                         SetTop(Adv(q), [st EXCEPT !.data = Append(@, c)]))
                ELSE IF is_valid_json_number(st.data)
                THEN Answer(SetResult(Adv(q), Str(st.data, TRUE)), FALSE)
                ELSE Spinning(q)
        ) : q \in {q_in}})

RECURSIVE parse_state_StateNumber(_)
\* Parser::parse_state(StateNumber &): on a byte that is no number character
\* the loop returns when the run is a valid number; when it is not, the loop
\* neither advances nor returns
parse_state_StateNumber(q_in) ==
    Only({(
        IF AtEnd(q) THEN Answer(q, TRUE)
        ELSE LET st == Top(q)
                 c == Cur(q)
             IN IF IsNumberChar(c)
                THEN parse_state_StateNumber(SetTop(Adv(q), [st EXCEPT !.data = Append(@, c)]))
                ELSE IF is_valid_json_number(st.data)
                THEN Answer(SetResult(q, Str(st.data, TRUE)), FALSE)
                ELSE Spinning(q)
        ) : q \in {q_in}})

RECURSIVE parse_state_StateDoubleNumber(_)
\* Parser::parse_state(StateDoubleNumber &)
parse_state_StateDoubleNumber(q_in) ==
    Only({(
        IF AtEnd(q) THEN Answer(q, TRUE)
        ELSE LET st == Top(q)
                 d == Append(st.data, Cur(q))
                 q1 == SetTop(Adv(q), [st EXCEPT !.data = d])
             IN IF Len(d) >= 8 THEN Answer(SetResult(q1, Dbl(d)), FALSE)
                ELSE parse_state_StateDoubleNumber(q1)
        ) : q \in {q_in}})

RECURSIVE parse_state_StateBinNumber(_)
\* Parser::parse_state(StateBinNumber &)
parse_state_StateBinNumber(q_in) ==
    Only({(
        LET st == Top(q) IN
        IF ~AtEnd(q) /\ st.size # 0
        THEN parse_state_StateBinNumber(
                 SetTop(Adv(q), [st EXCEPT !.accum = @ * 256 + Cur(q), !.size = @ - 1]))
        ELSE IF st.size # 0 THEN Answer(q, TRUE)
        ELSE IF st.negative THEN Answer(SetResult(q, IntV("int64", -st.accum)), FALSE)
        ELSE Answer(SetResult(q, IntV("uint64", st.accum)), FALSE)
        ) : q \in {q_in}})

RECURSIVE parse_state_StateBinString(_)
\* Parser::parse_state(StateBinString &)
parse_state_StateBinString(q_in) ==
    Only({(
        IF AtEnd(q) THEN Answer(q, TRUE)
        ELSE LET st == Top(q)
                 d == Append(st.data, Cur(q))
                 q1 == SetTop(Adv(q), [st EXCEPT !.data = d])
             IN IF Len(d) >= st.sz THEN Answer(SetResult(q1, Str(d, st.is_number)), FALSE)
                ELSE parse_state_StateBinString(q1)
        ) : q \in {q_in}})

\* Parser::parse_state(StateBinArray &)
parse_state_StateBinArray(q) == Answer(SetResult(q, Arr(Top(q).data)), FALSE)

\* Parser::parse_state(StateBinObject &)
parse_state_StateBinObject(q) == Answer(SetResult(q, Obj(Top(q).data)), FALSE)

\* std::visit over _state.back() calling parse_state
parse_state(q_in) ==
    Only({(
        LET k == Top(q).k IN
        CASE k = "DetectType" ->
               IF q.fmt = "text" THEN parse_state_DetectType_text(q)
               ELSE parse_state_DetectType_binary(q)
          [] k = "StateString" -> parse_state_StateString(q)
          [] k = "StateArray" -> parse_state_StateArray(q)
          [] k = "StateObject" -> parse_state_StateObject(q)
          [] k = "StateCheck" -> parse_state_StateCheck(q)
          [] k = "StateNumber" -> parse_state_StateNumber(q)
          [] k = "StateDoubleNumber" -> parse_state_StateDoubleNumber(q)
          [] k = "StateBinNumber" -> parse_state_StateBinNumber(q)
          [] k = "StateBinString" -> parse_state_StateBinString(q)
          [] k = "StateBinArray" -> parse_state_StateBinArray(q)
          [] k = "StateBinObject" -> parse_state_StateBinObject(q)
        ) : q \in {q_in}})

\* Value::get() read as std::size_t: get_unsigned_long
get_size(v) == IF v.t = "int" THEN v.n ELSE 0

\* Parser::finish_state(DetectType &, const Value &)
finish_state_DetectType(q, v) == Answer(SetPreprocessed(q, v), FALSE)

\* Parser::finish_state(StateArray &, const Value &)
finish_state_StateArray(q, v) ==
    Answer(SetTop(q, [Top(q) EXCEPT !.data = Append(@, v)]), TRUE)

\* Parser::finish_state(StateObject &, const Value &)
finish_state_StateObject(q, v) ==
    LET st == Top(q) IN
    IF st.reading_key
    THEN IF type(v) # "string" THEN Answer(SetError(q), FALSE)
         ELSE Answer(SetTop(q, [st EXCEPT !.key = get_string(v), !.reading_key = FALSE]), TRUE)
    ELSE Answer(SetTop(q, [st EXCEPT !.data = Append(@, KeyValue(st.key, v)),
                                     !.reading_key = TRUE]), TRUE)

\* Parser::finish_state(StateBinString &, const Value &)
finish_state_StateBinString(q, v) ==
    LET q1 == SetTop(q, [Top(q) EXCEPT !.sz = get_size(v)]) IN
    IF get_size(v) = 0 THEN Answer(SetResult(q1, Str(<<>>, FALSE)), FALSE)
    ELSE Answer(q1, TRUE)

\* Parser::finish_state(StateBinArray &, const Value &)
finish_state_StateBinArray(q, v) ==
    LET st == Top(q) IN
    IF st.sz = 0
    THEN LET q1 == SetTop(q, [st EXCEPT !.sz = get_size(v)]) IN
         IF get_size(v) = 0 THEN Answer(SetResult(q1, Arr(<<>>)), FALSE)
         ELSE Answer(Push(q1, DetectType), TRUE)
    ELSE LET d == Append(st.data, v) IN
         IF Len(d) < st.sz
         THEN Answer(Push(SetTop(q, [st EXCEPT !.data = d]), DetectType), TRUE)
         ELSE Answer(SetResult(SetTop(q, [st EXCEPT !.data = MovedFromValues(d)]), Arr(d)),
                     FALSE)

\* Parser::finish_state(StateBinObject &, const Value &)
finish_state_StateBinObject(q, v) ==
    LET st == Top(q) IN
    IF st.sz = 0
    THEN LET q1 == SetTop(q, [st EXCEPT !.sz = get_size(v)]) IN
         IF get_size(v) = 0 THEN Answer(SetResult(q1, Obj(<<>>)), FALSE)
         ELSE Answer(Push(SetTop(q1, [Top(q1) EXCEPT !.reading_key = TRUE]), DetectType), TRUE)
    ELSE IF st.reading_key
    THEN IF type(v) # "string" THEN Answer(SetError(q), FALSE)
         ELSE Answer(Push(SetTop(q, [st EXCEPT !.key = get_string(v),
                                               !.reading_key = FALSE]), DetectType), TRUE)
    ELSE LET d == Append(st.data, KeyValue(st.key, v)) IN
         IF Len(d) < st.sz
         THEN Answer(Push(SetTop(q, [st EXCEPT !.data = d, !.reading_key = TRUE]),
                          DetectType), TRUE)
         ELSE Answer(SetResult(SetTop(q, [st EXCEPT !.data = MovedFromKeyValues(d)]), Obj(d)),
                     FALSE)

\* std::visit over _state.back() calling finish_state; the frames that never
\* wait for a child answer false
finish_state(q_in, v_in) ==
    Only({(
        LET k == Top(q).k IN
        CASE k = "DetectType" -> finish_state_DetectType(q, v)
          [] k = "StateArray" -> finish_state_StateArray(q, v)
          [] k = "StateObject" -> finish_state_StateObject(q, v)
          [] k = "StateBinString" -> finish_state_StateBinString(q, v)
          [] k = "StateBinArray" -> finish_state_StateBinArray(q, v)
          [] k = "StateBinObject" -> finish_state_StateBinObject(q, v)
          [] OTHER -> Answer(q, FALSE)
        ) : q \in {q_in}, v \in {v_in}})

RECURSIVE FinishLoop(_, _)
\* the while (!need_more) loop of do_parse_cycle; the answer is its return value
FinishLoop(q_in, need_more) ==
    Only({(
        IF need_more THEN Answer(q, TRUE)
        ELSE IF q.is_error THEN Answer(q, FALSE)
        ELSE LET q1 == Pop(q) IN
             IF q1.state = <<>> THEN Answer(q1, FALSE)
             ELSE Only({FinishLoop(f.p, f.more) : f \in {finish_state(q1, q1.result)}})
        ) : q \in {q_in}})

\* a do_parse_cycle that begins a new document when the stack is empty
do_parse_cycle_restart(q_in) ==
    Only({Only({IF r.spin THEN r ELSE FinishLoop(r.p, r.more) : r \in {parse_state(q)}})
          : q \in {IF q_in.state = <<>> THEN [q_in EXCEPT !.state = <<DetectType>>]
                   ELSE q_in}})

\* Parser::do_parse_cycle
do_parse_cycle(q_in) ==
    Only({(
        IF q.state = <<>> THEN Answer(q, FALSE)
        ELSE Only({IF r.spin THEN r ELSE FinishLoop(r.p, r.more)
                   : r \in {parse_state(q)}})
        ) : q \in {q_in}})

RECURSIVE WriteLoop(_)
\* the loop of Parser::write and its return value
WriteLoop(q) ==
    IF AtEnd(q) THEN Answer(q, q.state # <<>>)
    ELSE LET c == do_parse_cycle(q) IN
         IF c.spin THEN c
         ELSE IF ~c.more THEN Answer(c.p, FALSE)
         ELSE WriteLoop(c.p)

\* Parser::write: _pos = text.begin(), _end = text.end(), then the loop
write(q, text) == WriteLoop([q EXCEPT !.text = text, !.pos = 1])

\* Parser::is_error
is_error(q) == q.is_error
\* a get_result that forgets to look at _is_error
get_result_raw(q) == q.result
\* Parser::get_result
get_result(q) == IF q.is_error THEN Undefined ELSE q.result
\* Parser::get_unprocessed_data
get_unprocessed_data(q) == SubSeq(q.text, q.pos, Len(q.text))

\* parse and unbinarize: a Value, a ParseError carrying an offset, or no
\* return at all when write() does not return
\* what parse and unbinarize do once p.write(text) has returned wrote
ParseReturn(q, wrote, text) ==
    IF ~wrote
    THEN IF is_error(q)
         THEN [kind |-> "ParseError", at |-> Len(text) - Len(get_unprocessed_data(q))]
         ELSE [kind |-> "value", value |-> get_result(q)]
    ELSE [kind |-> "ParseError", at |-> Len(text)]

OneShot(fmt, text) ==
    LET w == write(Parser(fmt), text) IN
    IF w.spin THEN [kind |-> "hang"] ELSE ParseReturn(w.p, w.more, text)

parse(text) == OneShot("text", text)
unbinarize(bin) == OneShot("binary", bin)

(***************************************************************************)
(* The values and the inputs explored                                      *)
(***************************************************************************)
MaxWidth == 3       \* elements of an enumerated array or object
MaxReads == 9       \* read() calls explored on one Serializer

D_zero == <<0, 0, 0, 0, 0, 0, 0, 0>>
D_1_5 == <<0, 0, 0, 0, 0, 0, 248, 63>>
D_neg_2 == <<0, 0, 0, 0, 0, 0, 0, 192>>
D_inf == <<0, 0, 0, 0, 0, 0, 240, 127>>
D_neg_inf == <<0, 0, 0, 0, 0, 0, 240, 255>>
D_nan == <<0, 0, 0, 0, 0, 0, 248, 127>>

Formats == {"text", "binary"}

Scalars ==
    {Undefined, Null, Bool(TRUE), Bool(FALSE),
     IntV("int32", 0), IntV("int32", 42), IntV("int32", -5), IntV("uint32", 7),
     IntV("int64", 300), IntV("int64", -300), IntV("uint64", 0), IntV("uint64", 70000),
     Str(<<>>, FALSE), Str(<<CH_a, CH_b>>, FALSE), Str(<<QUOTE, BACKSLASH, SLASH>>, FALSE),
     Str(<<10, 9, 12, 1>>, FALSE), Str(<<8>>, FALSE), Str(<<13>>, FALSE),
     Str(<<>>, TRUE), Str(<<CH_1, DOT, 53>>, TRUE), Str(<<MINUS, CH_1, CH_e, CH_1>>, TRUE),
     Dbl(D_zero), Dbl(D_1_5), Dbl(D_neg_2), Dbl(D_inf), Dbl(D_neg_inf), Dbl(D_nan)}

Keys == {<<CH_a>>, <<CH_b>>}

Elems ==
    {Undefined, Null, IntV("int32", 1), IntV("uint64", 2), Str(<<CH_a>>, FALSE),
     Str(<<>>, TRUE), Arr(<<Undefined>>), Obj(<<KeyValue(<<CH_a>>, IntV("int64", -5))>>)}

ObjElems == {Undefined, IntV("uint64", 2), Str(<<CH_1>>, TRUE), Arr(<<>>)}

SeqsUpTo(S, n) == UNION {[1..k -> S] : k \in 0..n}

Arrays == {Arr(a) : a \in SeqsUpTo(Elems, MaxWidth)}
Objects ==
    {Obj(o) : o \in SeqsUpTo({KeyValue(k, v) : k \in Keys, v \in ObjElems}, MaxWidth)}

\* documents nested deeper than the enumerated ones
DocValues ==
    {Arr(<<Arr(<<Arr(<<>>), Undefined>>), Obj(<<KeyValue(<<CH_a>>, Arr(<<Null>>))>>)>>),
     Obj(<<KeyValue(<<CH_b>>, Obj(<<KeyValue(<<CH_a>>, Undefined)>>)),
           KeyValue(<<CH_a>>, Arr(<<Undefined, Bool(TRUE), Dbl(D_1_5)>>))>>),
     Arr(<<Str(<<>>, FALSE), Str(<<CH_a, CH_b>>, FALSE), IntV("uint64", 300),
           IntV("int64", -300)>>)}

Values == Scalars \cup Arrays \cup Objects \cup DocValues

MaxLen == 3         \* bytes of an enumerated input

ArrayAlphabet == {LBRACKET, RBRACKET, COMMA, CH_1, QUOTE, SPACE}
NumberAlphabet == {CH_0, CH_1, MINUS, DOT, CH_e, COMMA}
ObjectAlphabet == {LBRACE, RBRACE, COLON, COMMA, QUOTE, CH_1}
BinAlphabet ==
    {BT_null, BT_bool_true, BT_p_number, BT_string, BT_string_number, BT_array, BT_object}

\* longer texts, well-formed and not
DocTexts ==
    {stringify(v) : v \in DocValues} \cup
    {<<LBRACKET, CH_1, DOT, RBRACKET>>,
     <<LBRACKET, CH_1, SPACE, CH_1, RBRACKET>>,
     <<LBRACE, QUOTE, CH_a, QUOTE, COLON, CH_1, COMMA, RBRACE>>,
     <<LBRACE, QUOTE, CH_a, QUOTE, SPACE, CH_1, RBRACE>>,
     <<LBRACE, CH_1, COLON, CH_1, RBRACE>>,
     <<LBRACE, QUOTE, CH_a, QUOTE, COLON, LBRACKET, CH_t, CH_r, CH_u, CH_e, COMMA,
       CH_n, CH_u, 108, 108, RBRACKET, RBRACE, SPACE, CH_1>>,
     <<CH_t, CH_r, CH_u, CH_1>>,
     <<PLUS, CH_1, SPACE>>,
     <<CH_1, CH_E, PLUS, CH_1, SPACE>>,
     <<QUOTE, BACKSLASH, CH_u, CH_0, CH_0, CH_e, CH_9, BACKSLASH, CH_n, BACKSLASH, 120,
       BACKSLASH, QUOTE, QUOTE>>}

DocBins ==
    {binarize(v) : v \in DocValues \cup Scalars} \cup
    {<<BT_object, 1, BT_p_number, 1, BT_null>>,
     <<BT_array, 2, BT_double_number, 0, 0, 0>>,
     <<BT_string + 1, 0, 2, CH_a, CH_b, CH_1>>,
     <<64, BT_null>>}

\* numbers written with a leading '+', each followed by a terminator
PlusTexts ==
    {<<PLUS, CH_1, SPACE>>,
     <<LBRACKET, PLUS, CH_1, RBRACKET>>,
     <<PLUS, CH_1, DOT, CH_0, CH_e, CH_1, COMMA>>}

\* the unquoted literals for infinity where a value is expected
InfinityTexts ==
    {infinity \o <<SPACE>>,
     neg_infinity \o <<SPACE>>,
     <<LBRACKET>> \o infinity \o <<RBRACKET>>,
     <<LBRACKET>> \o neg_infinity \o <<RBRACKET>>,
     <<LBRACE, QUOTE, CH_a, QUOTE, COLON>> \o infinity \o <<RBRACE>>}

\* an object whose keys are not written in their order, as text and as
\* binary data: {"b":[null,false],"a":true}
UnsortedText ==
    <<LBRACE, QUOTE, CH_b, QUOTE, COLON, LBRACKET, CH_n, CH_u, 108, 108, COMMA,
      CH_f, CH_a, 108, 115, CH_e, RBRACKET, COMMA, QUOTE, CH_a, QUOTE, COLON,
      CH_t, CH_r, CH_u, CH_e, RBRACE>>
UnsortedBin ==
    <<BT_object, 2, BT_string, 1, CH_b, BT_array, 2, BT_null, BT_bool_false,
      BT_string, 1, CH_a, BT_bool_true>>

\* four hexadecimal digits of n, with capital or with small letters
HexLetter(d, small) == IF d < 10 THEN CH_0 + d ELSE (IF small THEN 87 ELSE 55) + d
Hex4(n, small) ==
    <<HexLetter(n \div 4096, small), HexLetter((n \div 256) % 16, small),
      HexLetter((n \div 16) % 16, small), HexLetter(n % 16, small)>>
UEscape(n, small) == <<BACKSLASH, CH_u>> \o Hex4(n, small)

\* code units outside the surrogate ranges, at the ends of the ranges of
\* one, two and three bytes of UTF-8, and surrogates
PlainUnits == {0, 65, 127, 128, 233, 2047, 2048, 8364, 55295, 57344, 65535}
HighSurrogates == {55296, 55357, 56319}
LowSurrogates == {56320, 56832, 57343}
UnicodeCases ==
    {[hi |-> h, lo |-> 0, small |-> s] : h \in PlainUnits, s \in BOOLEAN}
        \cup {[hi |-> h, lo |-> l, small |-> s] :
                 h \in HighSurrogates, l \in LowSurrogates, s \in BOOLEAN}
\* "a\uXXXXb" and "a\uHHHH\uLLLLb"
UnicodeText(c) ==
    <<QUOTE, CH_a>> \o UEscape(c.hi, c.small)
        \o (IF c.lo = 0 THEN <<>> ELSE UEscape(c.lo, c.small)) \o <<CH_b, QUOTE>>
UnicodeTexts == {UnicodeText(c) : c \in UnicodeCases}

\* strings with a backslash in front of a byte that names no escape:
\* "a\xb", "\q", "ab\x", "\x\n", "\xa\\"
InvalidEscapeTexts ==
    {<<QUOTE, CH_a, BACKSLASH, 120, CH_b, QUOTE>>,
     <<QUOTE, BACKSLASH, 113, QUOTE>>,
     <<QUOTE, CH_a, CH_b, BACKSLASH, 120, QUOTE>>,
     <<QUOTE, BACKSLASH, 120, BACKSLASH, CH_n, QUOTE>>,
     <<QUOTE, BACKSLASH, 120, CH_a, BACKSLASH, BACKSLASH, QUOTE>>}

\* arrays and objects written as a bracket, up to MaxTokens tokens and the
\* closing bracket: a token is a comma, a colon, a space, the number 1 or
\* the string "a"; the texts with a space or with a number in an object are
\* among DocTexts and the enumerated byte sequences
MaxTokens == 4      \* tokens between the brackets of an enumerated container
ArrayTokens == {"comma", "num", "str"}
ObjectTokens == {"comma", "colon", "str"}
TokenBytes(tok) ==
    CASE tok = "comma" -> <<COMMA>>
      [] tok = "colon" -> <<COLON>>
      [] tok = "sp" -> <<SPACE>>
      [] tok = "num" -> <<CH_1>>
      [] tok = "str" -> <<QUOTE, CH_a, QUOTE>>
RECURSIVE TokensText(_)
TokensText(body) ==
    IF body = <<>> THEN <<>> ELSE TokenBytes(Head(body)) \o TokensText(Tail(body))
GrammarCases ==
    {[kind |-> "array", body |-> b] : b \in SeqsUpTo(ArrayTokens, MaxTokens)} \cup
    {[kind |-> "object", body |-> b] : b \in SeqsUpTo(ObjectTokens, MaxTokens)}
GrammarText(g) ==
    IF g.kind = "array" THEN <<LBRACKET>> \o TokensText(g.body) \o <<RBRACKET>>
    ELSE <<LBRACE>> \o TokensText(g.body) \o <<RBRACE>>
GrammarTexts == {GrammarText(g) : g \in GrammarCases}

TextInputs ==
    SeqsUpTo(ArrayAlphabet, MaxLen) \cup SeqsUpTo(NumberAlphabet, MaxLen)
        \cup SeqsUpTo(ObjectAlphabet, MaxLen) \cup DocTexts
        \cup PlusTexts \cup InfinityTexts \cup InvalidEscapeTexts \cup UnicodeTexts
        \cup GrammarTexts
BinInputs == SeqsUpTo(BinAlphabet, MaxLen) \cup DocBins
Inputs(fmt) == IF fmt = "text" THEN TextInputs ELSE BinInputs

\* the preprocessors a Parser is constructed with, and the inputs parsed
\* under each of them
Preprocessors == {"empty", "mark"}
PreprocInputs(fmt) ==
    IF fmt = "text" THEN DocTexts \cup {UnsortedText} ELSE DocBins \cup {UnsortedBin}

(***************************************************************************)
(* A caller that constructs a Serializer from a Value it keeps and calls   *)
(* read() over and over                                                    *)
(***************************************************************************)
ParserIdle ==
    /\ p = Parser("text") /\ pc = "idle" /\ ret = TRUE /\ input = <<>>
    /\ fed = 0 /\ nwrites = 0 /\ proto = TRUE
OneShotIdle == val = Undefined /\ bytes = <<>> /\ outcome = [kind |-> "none"]
ContainersIdle == recv = [t |-> "undefined"] /\ op = [name |-> "none"]
SharingIdle == hnd = <<>> /\ store = <<>>
ThreadsIdle == blk = [refcnt |-> 0] /\ thr = <<>>
SerializerIdle ==
    sval = Undefined /\ ser = Serializer("text", Undefined) /\ sout = <<>> /\ chunks = <<>>

SerInit ==
    /\ sval \in Values
    /\ \E fmt \in Formats : ser = Serializer(fmt, sval)
    /\ sout = <<>>
    /\ chunks = <<>>
    /\ ParserIdle
    /\ OneShotIdle
    /\ ContainersIdle
    /\ SharingIdle
    /\ ThreadsIdle

\* one call of read(): the chunk it returns is appended to what was read
Read ==
    /\ Len(chunks) < MaxReads
    /\ ser' = read(ser)
    /\ chunks' = Append(chunks, ser'.out)
    /\ sout' = sout \o ser'.out
    /\ UNCHANGED <<p, pc, ret, input, fed, nwrites, proto, sval, val, bytes, outcome,
                 recv, op, hnd, store, blk, thr>>

SerNext == Read
SerSpec == SerInit /\ [][SerNext]_vars

\* the whole serialization, as the one-shot wrapper of the format makes it
Complete(fmt, v) == IF fmt = "text" THEN stringify(v) ELSE binarize(v)

RECURSIVE Nodes(_)
\* a scalar counts 1, a container 2 more than its elements
Nodes(v) ==
    CASE v.t = "array" ->
           LET RECURSIVE Sum(_)
               Sum(i) == IF i > Len(v.a) THEN 0 ELSE Nodes(v.a[i]) + Sum(i + 1)
           IN 2 + Sum(1)
      [] v.t = "object" ->
           LET RECURSIVE SumO(_)
               SumO(i) == IF i > Len(v.o) THEN 0 ELSE Nodes(v.o[i].value) + SumO(i + 1)
           IN 2 + SumO(1)
      [] OTHER -> 1

RECURSIVE JoinComma(_)
JoinComma(parts) ==
    IF parts = <<>> THEN <<>>
    ELSE IF Len(parts) = 1 THEN parts[1]
    ELSE parts[1] \o <<COMMA>> \o JoinComma(Tail(parts))

RECURSIVE TextShape(_)
\* the text the claim describes: the defined elements of a container in
\* order, one comma between neighbours, nothing for an undefined element
TextShape(v) ==
    CASE v.t = "array" ->
           LET kept == SelectSeq(v.a, defined) IN
           <<LBRACKET>> \o JoinComma([i \in 1..Len(kept) |-> TextShape(kept[i])])
                        \o <<RBRACKET>>
      [] v.t = "object" ->
           LET kept == SelectSeq(v.o, LAMBDA kv : defined(kv.value)) IN
           <<LBRACE>> \o JoinComma([i \in 1..Len(kept) |->
                            stringify(Str(kept[i].key, FALSE)) \o <<COLON>>
                                \o TextShape(kept[i].value)])
                      \o <<RBRACE>>
      [] OTHER -> stringify(v)

MaxWrites == 3      \* write() calls explored on one Parser

ParseInit ==
    /\ \E fmt \in Formats, fn \in Preprocessors :
          /\ p = Parser_Fn(fmt, fn)
          /\ input \in (IF fn = "empty" THEN Inputs(fmt) ELSE {}) \cup PreprocInputs(fmt)
    /\ pc = "idle" /\ ret = TRUE /\ fed = 0 /\ nwrites = 0 /\ proto = TRUE
    /\ SerializerIdle
    /\ OneShotIdle
    /\ ContainersIdle
    /\ SharingIdle
    /\ ThreadsIdle

\* write(chunk) is entered with the next n bytes of the input
WriteBegin ==
    /\ pc = "idle"
    /\ nwrites < MaxWrites
    /\ \E n \in 0..(Len(input) - fed) :
          /\ p' = [p EXCEPT !.text = SubSeq(input, fed + 1, fed + n), !.pos = 1]
          /\ fed' = fed + n
    /\ nwrites' = nwrites + 1
    /\ proto' = (proto /\ (nwrites = 0 \/ ret))
    /\ pc' = "writing"
    /\ UNCHANGED <<ret, input, ser, sval, sout, chunks, val, bytes, outcome,
                 recv, op, hnd, store, blk, thr>>

\* one turn of while (_pos != _end) in write(): do_parse_cycle() answers
\* false and write() returns false, or it answers true and the loop goes on,
\* or it does not come back
Cycle ==
    /\ pc = "writing"
    /\ ~AtEnd(p)
    /\ \E c \in {do_parse_cycle(p)} :
          /\ p' = c.p
          /\ pc' = IF c.spin THEN "spin" ELSE IF c.more THEN "writing" ELSE "idle"
          /\ ret' = IF c.spin \/ c.more THEN ret ELSE FALSE
    /\ UNCHANGED <<input, fed, nwrites, proto, ser, sval, sout, chunks, val, bytes, outcome,
                 recv, op, hnd, store, blk, thr>>

\* the chunk is used up: write() returns !_state.empty()
WriteEnd ==
    /\ pc = "writing"
    /\ AtEnd(p)
    /\ ret' = (p.state # <<>>)
    /\ pc' = "idle"
    /\ UNCHANGED <<p, input, fed, nwrites, proto, ser, sval, sout, chunks, val, bytes, outcome,
                 recv, op, hnd, store, blk, thr>>

\* parse_state(StateNumber) looking at the same byte again
Spin ==
    /\ pc = "spin"
    /\ UNCHANGED vars

ParseNext == WriteBegin \/ Cycle \/ WriteEnd \/ Spin
ParseSpec == ParseInit /\ [][ParseNext]_vars

(***************************************************************************)
(* The one-shot wrappers.  stringify and binarize: the loop appending the  *)
(* chunks of read() to retval.  parse and unbinarize: one write() of the   *)
(* whole text, then the result or a ParseError.  A Value is serialized and *)
(* the bytes are parsed back, or a byte string is handed to parse or       *)
(* unbinarize as it is.                                                    *)
(***************************************************************************)
MaxPlain == 2       \* bytes of an enumerated string

\* bytes that are no control character, no quotation mark and no backslash:
\* ASCII characters, among them the letters of the escapes, and bytes of
\* UTF-8 sequences, well-formed or not
PlainBytes == {SPACE, SLASH, CH_1, CH_n, CH_u, COMMA, 127, 128, 226, 255}
PlainStrings == {Str(s, FALSE) : s \in SeqsUpTo(PlainBytes, MaxPlain)}

RoundInit ==
    /\ \E fmt \in Formats :
          /\ p = Parser(fmt)
          /\ \/ /\ val \in Values \cup PlainStrings
                /\ ser = Serializer(fmt, val)
                /\ bytes = <<>>
                /\ pc = "serialize"
             \/ /\ val = Undefined
                /\ ser = Serializer("text", Undefined)
                /\ bytes \in Inputs(fmt)
                /\ pc = "call"
    /\ sval = val /\ sout = <<>> /\ chunks = <<>>
    /\ input = <<>> /\ ret = TRUE /\ fed = 0 /\ nwrites = 0 /\ proto = TRUE
    /\ outcome = [kind |-> "none"]
    /\ ContainersIdle
    /\ SharingIdle
    /\ ThreadsIdle

\* part = ser.read(); a non-empty part is appended to retval (sout), an
\* empty one ends the loop and retval is returned
ReadPart ==
    /\ pc = "serialize"
    /\ \E s1 \in {read(ser)} :
          /\ ser' = s1
          /\ chunks' = Append(chunks, s1.out)
          /\ IF s1.out = <<>>
             THEN /\ bytes' = sout /\ input' = sout /\ pc' = "call" /\ UNCHANGED sout
             ELSE /\ sout' = sout \o s1.out /\ UNCHANGED <<bytes, input, pc>>
    /\ UNCHANGED <<p, ret, fed, nwrites, proto, sval, val, outcome, recv, op, hnd, store, blk, thr>>

\* Parser p; p.write(text) is entered with the whole text
Call ==
    /\ pc = "call"
    /\ p' = [p EXCEPT !.text = bytes, !.pos = 1]
    /\ pc' = "writing"
    /\ nwrites' = nwrites + 1
    /\ fed' = Len(bytes)
    /\ UNCHANGED <<ret, input, proto, ser, sval, sout, chunks, val, bytes, outcome,
                 recv, op, hnd, store, blk, thr>>

\* write() has returned: the wrapper returns the result or throws
Return ==
    /\ pc = "idle"
    /\ outcome' = ParseReturn(p, ret, bytes)
    /\ pc' = "returned"
    /\ UNCHANGED <<p, ret, input, fed, nwrites, proto, ser, sval, sout, chunks, val, bytes,
                 recv, op, hnd, store, blk, thr>>

RoundNext == ReadPart \/ Call \/ Cycle \/ WriteEnd \/ Return \/ Spin
RoundSpec == RoundInit /\ [][RoundNext]_vars

(***************************************************************************)
(* Round trips and the answers of parse and unbinarize                     *)
(***************************************************************************)
RECURSIVE SubValues(_)
\* v and every Value nested in it
SubValues(v) ==
    {v} \cup
    (CASE v.t = "array" -> UNION {SubValues(v.a[i]) : i \in 1..Len(v.a)}
       [] v.t = "object" -> UNION {SubValues(v.o[i].value) : i \in 1..Len(v.o)}
       [] OTHER -> {})

Holds(v, P(_)) == \E x \in SubValues(v) : P(x)
IsUndefined(v) == v.t = "undefined"
IsNaN(v) == v.t = "dnum" /\ isnan(v.bits)
\* an integer the binary parser gives back in another alternative: it builds
\* unsigned long long for a positive-number tag and long long for a negative one
IsReshapedInt(v) ==
    v.t = "int" /\ ~((v.st = "uint64" /\ v.n >= 0) \/ (v.st = "int64" /\ v.n < 0))

\* the wrapper applied to the serialization of val has come to its end, or
\* never will
TripEnded(fmt) == p.fmt = fmt /\ chunks # <<>> /\ pc \in {"returned", "spin"}
CallEnded == pc \in {"returned", "spin"}

\* C2: for every Value v holding no undefined and no NaN, parse(stringify(v))
\* returns a Value (no ParseError) and that Value == v.
C2_TextRoundTrip ==
    (TripEnded("text") /\ ~Holds(val, IsUndefined) /\ ~Holds(val, IsNaN))
        => /\ pc = "returned"
           /\ outcome.kind = "value"
           /\ ValEq(outcome.value, val)

C4_BinaryRoundTripSerialization ==
    TripEnded("binary")
        => /\ pc = "returned"
           /\ outcome.kind = "value"
           /\ binarize(outcome.value) = bytes
           /\ stringify(outcome.value) = stringify(val)

\* C8: parse(text) and unbinarize(bytes) always come back: with a Value when
\* write() answered false without error, else with a ParseError whose offset
\* is the length of the input when the input ended early and the index of
\* the first byte not consumed when the input was malformed.
C8_ThrowsOnBadInput ==
    CallEnded
        => /\ pc = "returned"
           /\ \/ outcome.kind = "value" /\ ~ret /\ ~is_error(p)
              \/ /\ outcome.kind = "ParseError"
                 /\ IF ret THEN outcome.at = Len(bytes)
                    ELSE is_error(p) /\ outcome.at = p.pos - 1

(***************************************************************************)
(* The incremental parser fed in chunks                                    *)
(***************************************************************************)
\* the caller followed the protocol (a further write() only after true) and
\* has no more to feed, or write() does not come back
FeedingEnded ==
    /\ proto
    /\ nwrites >= 1
    /\ \/ pc = "spin"
       \/ pc = "idle" /\ (~ret \/ fed = Len(input))

\* bytes of the input the parser has not consumed: the rest of the last
\* chunk and what was never handed over
Unconsumed == Len(get_unprocessed_data(p)) + (Len(input) - fed)

\* C1: feeding an input in consecutive chunks, each further write() only
\* after the one before answered true, ends as one write() of the whole
\* input does: same answer of write(), same is_error(), same get_result(),
\* same number of bytes left unconsumed.
C1_SplitFeeding ==
    FeedingEnded =>
        LET w == write(Parser_Fn(p.fmt, p.fn), input) IN
        /\ w.spin = (pc = "spin")
        /\ ~w.spin =>
              /\ w.more = ret
              /\ is_error(w.p) = is_error(p)
              /\ get_result(w.p) = get_result(p)
              /\ Len(get_unprocessed_data(w.p)) = Unconsumed

C1_Witness ==
    /\ FeedingEnded
    /\ nwrites = 2
    /\ input = <<LBRACE, QUOTE, CH_a, QUOTE, COLON, LBRACKET, CH_t, CH_r, CH_u, CH_e, COMMA,
                 CH_n, CH_u, 108, 108, RBRACKET, RBRACE, SPACE, CH_1>>
    /\ Len(p.text) = 11
    /\ pc = "idle" /\ ~ret /\ ~is_error(p)
    /\ get_result(p) = Obj(<<KeyValue(<<CH_a>>, Arr(<<Bool(TRUE), Null>>))>>)
    /\ Unconsumed = 2

\* C5: write() always returns: the parser is never left looking at the
\* same byte in the same state.
C5_WriteReturns == pc # "spin"

\* the Number frame on top and the bytes of the chunk it will accept
NumberOnTop == p.fmt = "text" /\ p.state # <<>> /\ Top(p).k = "StateNumber"
RECURSIVE NumberRun(_)
NumberRun(q) ==
    IF ~AtEnd(q) /\ IsNumberChar(Cur(q))
    THEN NumberRun(SetTop(Adv(q), [Top(q) EXCEPT !.data = Append(@, Cur(q))]))
    ELSE q

\* C6: when the Number state meets the first byte that is no number
\* character, a valid run becomes the number-flagged string result, and any
\* other run puts the parser in the error state with write() returning false.
C6_NumberStateEnd ==
    [][(pc = "writing" /\ NumberOnTop /\ ~AtEnd(NumberRun(p)))
          => LET run == Top(NumberRun(p)).data IN
             IF is_valid_json_number(run)
             THEN pc' # "spin" /\ p'.result = Str(run, TRUE)
             ELSE is_error(p') /\ pc' = "idle" /\ ret' = FALSE]_vars

\* C7: on a parser in the error state get_result() is undefined, and no
\* write() ever takes the parser out of the error state.
C7_ErrorAbsorbing ==
    /\ [](is_error(p) => get_result(p) = Undefined)
    /\ [][is_error(p) => is_error(p')]_vars

C7_Witness ==
    /\ is_error(p)
    /\ p.result # Undefined
    /\ nwrites = MaxWrites /\ ~proto
    /\ pc = "idle" /\ fed = Len(input) /\ Len(p.text) > 0

(***************************************************************************)
(* The binary serialization of containers                                  *)
(***************************************************************************)
RECURSIVE Flatten(_)
Flatten(parts) == IF parts = <<>> THEN <<>> ELSE parts[1] \o Flatten(Tail(parts))

\* tag byte and big-endian size, as binary_format.md lays them out
TypeSize(tag, size) ==
    render_binary_type_size(Serializer("binary", Undefined), tag, uint64_t(size)).out

RECURSIVE BinShape(_)
\* the encoding the claim describes: the size() of the container, then every
\* element (every key and value), an undefined one as the byte 0x07
BinShape(v) ==
    CASE v.t = "array" ->
           TypeSize(BT_array, Len(v.a)) \o Flatten([i \in 1..Len(v.a) |-> BinShape(v.a[i])])
      [] v.t = "object" ->
           TypeSize(BT_object, Len(v.o)) \o
           Flatten([i \in 1..Len(v.o) |->
                      TypeSize(BT_string, Len(v.o[i].key)) \o v.o[i].key
                          \o BinShape(v.o[i].value)])
      [] v.t = "undefined" -> <<BT_undefined>>
      [] OTHER -> binarize(v)

RECURSIVE BinSize(_, _, _)
\* the number held in the n bytes of b from position pos on
BinSize(b, pos, n) ==
    IF n = 0 THEN 0 ELSE BinSize(b, pos, n - 1) * 256 + b[pos + n - 1]

RECURSIVE BinSkip(_, _)
RECURSIVE BinSkipMany(_, _, _)
\* a reader of the format: the position behind the element that starts at
\* pos, 0 when the bytes end before the element does
BinSkip(b, pos) ==
    IF pos = 0 \/ pos > Len(b) THEN 0
    ELSE LET tag == b[pos]
             kind == tag - (tag % 8)
             n == (tag % 8) + 1
         IN IF tag = BT_double_number THEN (IF pos + 8 > Len(b) THEN 0 ELSE pos + 9)
            ELSE IF tag < BT_p_number THEN pos + 1
            ELSE IF pos + n > Len(b) THEN 0
            ELSE LET size == BinSize(b, pos + 1, n)
                     body == pos + 1 + n
                 IN CASE kind \in {BT_p_number, BT_n_number} -> body
                      [] kind \in {BT_string, BT_string_number} ->
                           IF body + size - 1 > Len(b) THEN 0 ELSE body + size
                      [] kind = BT_array -> BinSkipMany(b, body, size)
                      [] kind = BT_object -> BinSkipMany(b, body, 2 * size)
                      [] OTHER -> 0

BinSkipMany(b, pos, count) ==
    IF count = 0 \/ pos = 0 THEN pos
    ELSE BinSkipMany(b, BinSkip(b, pos), count - 1)

ObjRaw(o) == [t |-> "object", o |-> o]

\* KeyValue() = default: an undefined Value, and a Key holding an undefined
\* Value, whose get_string() is "(undefined)"
DefaultKeyValue == KeyValue(get_string(Undefined), Undefined)

\* Value::size()
size(v) == CASE v.t = "array" -> Len(v.a) [] v.t = "object" -> Len(v.o) [] OTHER -> 0

\* Value::keys(): the KeyValues of an object, nothing for any other Value
keys(v) == IF v.t = "object" THEN v.o ELSE <<>>

\* Value::begin() .. Value::end(): the elements of an array, the values of
\* an object
Items(v) ==
    CASE v.t = "array" -> v.a
      [] v.t = "object" -> ObjectValues(v.o)
      [] OTHER -> <<>>

\* Value::get_array()
get_array(v) == IF v.t = "array" THEN v.a ELSE <<>>

\* Container<T>::create(sz) with `written` assigned from the front on and
\* set_size never called: the rest stays default-constructed
Unshrunk(written, sz, dflt) == written \o [i \in 1..(sz - Len(written)) |-> dflt]

RECURSIVE StrtolDigits(_, _, _)
StrtolDigits(s, i, acc) ==
    IF i <= Len(s) /\ isdigit(s[i]) THEN StrtolDigits(s, i + 1, acc * 10 + (s[i] - CH_0))
    ELSE acc

RECURSIVE strtol(_, _)
\* std::strtol(a.data(), nullptr, 10) from position i on
strtol(s, i) ==
    IF i > Len(s) THEN 0
    ELSE IF isspace(s[i]) THEN strtol(s, i + 1)
    ELSE IF s[i] = MINUS THEN -StrtolDigits(s, i + 1, 0)
    ELSE IF s[i] = PLUS THEN StrtolDigits(s, i + 1, 0)
    ELSE StrtolDigits(s, i, 0)

\* Value::get_int() for the alternatives other than double
get_int(v) ==
    CASE v.t = "int" -> v.n
      [] v.t = "boolean" -> IF v.b THEN 1 ELSE 0
      [] v.t = "string" -> strtol(v.s, 1)
      [] v.t \in {"undefined", "null", "array", "object"} -> 0

\* std::to_string(int)
to_string(n) ==
    IF n < 0 THEN <<MINUS>> \o render_unsigned_number(-n) ELSE render_unsigned_number(n)

RECURSIVE MergeLoop(_, _, _, _, _)
\* the three loops of merge_keys: iter1 over kv1, iter2 over kv2, out
MergeLoop(kv1, i1, kv2, i2, out) ==
    IF i1 <= Len(kv1) /\ i2 <= Len(kv2)
    THEN LET itm1 == kv1[i1]
             itm2 == kv2[i2]
         IN IF SeqLess(itm1.key, itm2.key)
            THEN MergeLoop(kv1, i1 + 1, kv2, i2, Append(out, itm1))
            ELSE IF SeqLess(itm2.key, itm1.key)
            THEN MergeLoop(kv1, i1, kv2, i2 + 1,
                           IF defined(itm2.value) THEN Append(out, itm2) ELSE out)
            ELSE MergeLoop(kv1, i1 + 1, kv2, i2 + 1,
                           IF defined(itm2.value) THEN Append(out, itm2) ELSE out)
    ELSE IF i1 <= Len(kv1)
    THEN MergeLoop(kv1, i1 + 1, kv2, i2, Append(out, kv1[i1]))
    ELSE IF i2 <= Len(kv2)
    THEN MergeLoop(kv1, i1, kv2, i2 + 1,
                   IF defined(kv2[i2].value) THEN Append(out, kv2[i2]) ELSE out)
    ELSE out

\* a merge_keys in which the receiver's entry wins a collision
merge_keys_left(v, changes) == ObjRaw(MergeLoop(keys(changes), 1, keys(v), 1, <<>>))

\* Value::merge_keys: the Value *this becomes
merge_keys(v, changes) == ObjRaw(MergeLoop(keys(v), 1, keys(changes), 1, <<>>))

\* Value::set_keys
set_keys(v, items) == merge_keys(v, ObjRaw(sort_object(items)))

\* the caller's predicates over a Value
PredValues == {"odd", "defined", "never"}
PredValue(fn, x) ==
    CASE fn = "odd" -> get_int(x) % 2 = 1
      [] fn = "defined" -> defined(x)
      [] fn = "never" -> FALSE

\* the caller's predicates over a KeyValue
PredKeyValues == {"odd", "key_a", "always"}
PredKeyValue(fn, kv) ==
    CASE fn = "odd" -> get_int(kv.value) % 2 = 1
      [] fn = "key_a" -> kv.key = <<CH_a>>
      [] fn = "always" -> TRUE

\* the caller's functions Value -> KeyValue
FnValueKeyValues == {"by_int", "odd_by_int"}
FnValueKeyValue(fn, x) ==
    CASE fn = "by_int" -> KeyValue(to_string(get_int(x)), x)
      [] fn = "odd_by_int" ->
           KeyValue(to_string(get_int(x)), IF get_int(x) % 2 = 1 THEN x ELSE Undefined)

\* the caller's functions KeyValue -> KeyValue
FnKeyValueKeyValues == {"same", "swap_a_b", "odd_only"}
FnKeyValueKeyValue(fn, kv) ==
    CASE fn = "same" -> kv
      [] fn = "swap_a_b" ->
           KeyValue(IF kv.key = <<CH_a>> THEN <<CH_b>>
                    ELSE IF kv.key = <<CH_b>> THEN <<CH_a>> ELSE kv.key, kv.value)
      [] fn = "odd_only" ->
           KeyValue(kv.key, IF get_int(kv.value) % 2 = 1 THEN kv.value ELSE Undefined)

\* a filter that never calls set_size
filter_Value_unshrunk(v, fn) ==
    Arr(Unshrunk(SelectSeq(Items(v), LAMBDA x : PredValue(fn, x)), size(v), Undefined))

\* Value::filter, Value predicate: the accepted elements, then set_size
filter_Value(v, fn) == Arr(SelectSeq(Items(v), LAMBDA x : PredValue(fn, x)))

\* Value::filter, KeyValue predicate: the accepted pairs; no set_size
filter_KeyValue(v, fn) ==
    ObjRaw(Unshrunk(SelectSeq(keys(v), LAMBDA kv : PredKeyValue(fn, kv)),
                    size(v), DefaultKeyValue))

\* Value::map, KeyValue -> KeyValue: the outputs with a defined value; no
\* set_size and no sort_object
map_KeyValue_KeyValue(v, fn) ==
    LET w == [i \in 1..Len(keys(v)) |-> FnKeyValueKeyValue(fn, keys(v)[i])] IN
    ObjRaw(Unshrunk(SelectSeq(w, LAMBDA kv : defined(kv.value)), size(v), DefaultKeyValue))

\* a map that sorts the object it returns
map_Value_KeyValue_sorted(v, fn) ==
    LET w == [i \in 1..Len(Items(v)) |-> FnValueKeyValue(fn, Items(v)[i])] IN
    ObjRaw(sort_object(SelectSeq(w, LAMBDA kv : defined(kv.value))))

\* Value::map, Value -> KeyValue
map_Value_KeyValue(v, fn) ==
    LET w == [i \in 1..Len(Items(v)) |-> FnValueKeyValue(fn, Items(v)[i])] IN
    ObjRaw(Unshrunk(SelectSeq(w, LAMBDA kv : defined(kv.value)), size(v), DefaultKeyValue))

\* Value::slice(from, to): Value(from, to)
slice(v, from, to) == Arr(SubSeq(Items(v), from + 1, to))

\* Value::splice(from, to, new_from, new_to): res is filled with the
\* elements before from, the new range and the elements from to on; *this
\* is assigned Value(std::move(p)) with p the Value * behind the last
\* element written, which is Value(bool) of a pointer that is not null
splice(v, from, to, new_items) ==
    LET src == get_array(v)
        res == SubSeq(src, 1, from) \o new_items \o SubSeq(src, to + 1, Len(src))
    IN [self |-> Bool(TRUE), erased |-> slice(v, from, to), res |-> res]

\* Value::insert(at, data): splice(at, at, data.begin(), data.end())
insert(v, at, data) == splice(v, at, at, Items(data)).self

\* Value::erase(from, to): splice(from, to, begin(), begin())
erase(v, from, to) == splice(v, from, to, <<>>).self

\* Value(std::initializer_list<Value>): an object when every element is a
\* two-element array that starts with a string, an array otherwise
Value_initializer_list(list) ==
    IF \A i \in 1..Len(list) :
          /\ type(list[i]) = "array"
          /\ size(list[i]) = 2
          /\ type(list[i].a[1]) = "string"
    THEN ObjRaw(sort_object([i \in 1..Len(list) |->
                    KeyValue(get_string(list[i].a[1]), list[i].a[2])]))
    ELSE Arr(list)

(***************************************************************************)
(* A caller that builds a Value and calls the container operations on it   *)
(***************************************************************************)
MaxEntries == 2     \* KeyValues handed to a constructor, KeyValues of changes
MaxChanges == 1     \* KeyValues handed to set_keys
MaxItems == 3       \* elements of a constructed array
MaxNew == 1         \* elements handed to splice or insert

EntryKeys == {<<CH_a>>, <<CH_a, CH_b>>, <<CH_b>>}
EntryValues == {Undefined, Str(to_string(1), FALSE), Str(to_string(2), FALSE)}
Entries == {KeyValue(k, v) : k \in EntryKeys, v \in EntryValues}
EntryLists == SeqsUpTo(Entries, MaxEntries)
EntryObjects == {Obj(entries) : entries \in EntryLists}
ChangeLists == SeqsUpTo(Entries, MaxChanges)
ArrayItems == {IntV("int32", 1), IntV("int32", 2),
               Str(to_string(3), FALSE), Str(to_string(4), FALSE)}
ItemLists == SeqsUpTo(ArrayItems, MaxItems)
NewLists == SeqsUpTo(ArrayItems, MaxNew)

Constructors == {"Value(KeyValues)", "Value(initializer_list)", "Value(Array)",
                 "parse", "unbinarize"}
Fresh == op.name \in Constructors \cup {"assigned"}

ValueInit ==
    /\ ParserIdle
    /\ SerializerIdle
    /\ OneShotIdle
    /\ ContainersIdle
    /\ SharingIdle
    /\ ThreadsIdle

Others == <<p, pc, ret, input, fed, nwrites, proto, ser, sval, sout, chunks,
            val, bytes, outcome, hnd, store, blk, thr>>

\* Value v(std::vector<KeyValue>{...})
ConstructObject ==
    /\ op.name = "none"
    /\ \E entries \in EntryLists :
          /\ recv' = Obj(entries)
          /\ op' = [name |-> "Value(KeyValues)", supplied |-> entries]
    /\ UNCHANGED Others

\* Value v{{key, value}, ...}
ConstructPairs ==
    /\ op.name = "none"
    /\ \E entries \in EntryLists :
          /\ recv' = Value_initializer_list(
                        [i \in 1..Len(entries) |->
                            Arr(<<Str(entries[i].key, FALSE), entries[i].value>>)])
          /\ op' = [name |-> "Value(initializer_list)", supplied |-> entries]
    /\ UNCHANGED Others

\* Value v(Array{...})
ConstructArray ==
    /\ op.name = "none"
    /\ \E items \in ItemLists :
          /\ recv' = Arr(items)
          /\ op' = [name |-> "Value(Array)", supplied |-> items]
    /\ UNCHANGED Others

\* Value v = parse(text) of the text of an object
ParseText ==
    /\ op.name = "none"
    /\ \E entries \in EntryLists :
          /\ \A i \in 1..Len(entries) : defined(entries[i].value)
          /\ recv' = parse(stringify(ObjRaw(entries))).value
          /\ op' = [name |-> "parse", supplied |-> entries]
    /\ UNCHANGED Others

\* Value v = unbinarize(bytes) of the bytes of an object
ParseBinary ==
    /\ op.name = "none"
    /\ \E entries \in EntryLists :
          /\ recv' = unbinarize(binarize(ObjRaw(entries))).value
          /\ op' = [name |-> "unbinarize", supplied |-> entries]
    /\ UNCHANGED Others

\* v.merge_keys(changes)
MergeKeys ==
    /\ Fresh /\ type(recv) = "object"
    /\ \E changes \in EntryObjects :
          /\ recv' = merge_keys(recv, changes)
          /\ op' = [name |-> "merge_keys", before |-> recv, arg |-> changes]
    /\ UNCHANGED Others

\* v.set_keys({...})
SetKeys ==
    /\ Fresh /\ type(recv) = "object"
    /\ \E entries \in ChangeLists :
          /\ recv' = set_keys(recv, entries)
          /\ op' = [name |-> "set_keys", before |-> recv, arg |-> ObjRaw(entries)]
    /\ UNCHANGED Others

\* r = v.filter(fn), fn a predicate over Value
FilterValue ==
    /\ Fresh /\ type(recv) \in {"array", "object"}
    /\ \E fn \in PredValues :
          op' = [name |-> "filter_Value", before |-> recv, fn |-> fn,
                 result |-> filter_Value(recv, fn)]
    /\ UNCHANGED <<Others, recv>>

\* r = v.filter(fn), fn a predicate over KeyValue
FilterKeyValue ==
    /\ Fresh /\ type(recv) = "object"
    /\ \E fn \in PredKeyValues :
          op' = [name |-> "filter_KeyValue", before |-> recv, fn |-> fn,
                 result |-> filter_KeyValue(recv, fn)]
    /\ UNCHANGED <<Others, recv>>

\* r = v.map(fn), fn from KeyValue to KeyValue
MapKeyValue ==
    /\ Fresh /\ type(recv) = "object"
    /\ \E fn \in FnKeyValueKeyValues :
          op' = [name |-> "map_KeyValue_KeyValue", before |-> recv, fn |-> fn,
                 result |-> map_KeyValue_KeyValue(recv, fn)]
    /\ UNCHANGED <<Others, recv>>

\* r = v.map(fn), fn from Value to KeyValue
MapValue ==
    /\ Fresh /\ type(recv) \in {"array", "object"}
    /\ \E fn \in FnValueKeyValues :
          op' = [name |-> "map_Value_KeyValue", before |-> recv, fn |-> fn,
                 result |-> map_Value_KeyValue(recv, fn)]
    /\ UNCHANGED <<Others, recv>>

\* v = r: the result of the last filter or map becomes the receiver
Assign ==
    /\ op.name \in {"filter_Value", "filter_KeyValue",
                    "map_KeyValue_KeyValue", "map_Value_KeyValue"}
    /\ recv' = op.result
    /\ op' = [name |-> "assigned"]
    /\ UNCHANGED Others

\* r = v.splice(v.begin() + from, v.begin() + to, new.begin(), new.end())
Splice ==
    /\ Fresh /\ type(recv) = "array"
    /\ \E from \in 0..size(recv), new_items \in NewLists :
       \E to \in from..size(recv) :
       \E s \in {splice(recv, from, to, new_items)} :
          /\ recv' = s.self
          /\ op' = [name |-> "splice", before |-> recv, from |-> from, to |-> to,
                    new_items |-> new_items, result |-> s.erased]
    /\ UNCHANGED Others

\* v.insert(v.begin() + at, data)
Insert ==
    /\ Fresh /\ type(recv) = "array"
    /\ \E at \in 0..size(recv), new_items \in NewLists :
          /\ recv' = insert(recv, at, Arr(new_items))
          /\ op' = [name |-> "insert", before |-> recv, from |-> at, to |-> at,
                    new_items |-> new_items]
    /\ UNCHANGED Others

\* v.erase(v.begin() + from, v.begin() + to)
Erase ==
    /\ Fresh /\ type(recv) = "array"
    /\ \E from \in 0..size(recv) :
       \E to \in from..size(recv) :
          /\ recv' = erase(recv, from, to)
          /\ op' = [name |-> "erase", before |-> recv, from |-> from, to |-> to,
                    new_items |-> <<>>]
    /\ UNCHANGED Others

ValueNext ==
    \/ ConstructObject \/ ConstructPairs \/ ConstructArray
    \/ ParseText \/ ParseBinary
    \/ MergeKeys \/ SetKeys
    \/ FilterValue \/ FilterKeyValue \/ MapKeyValue \/ MapValue \/ Assign
    \/ Splice \/ Insert \/ Erase

ValueSpec == ValueInit /\ [][ValueNext]_vars

(***************************************************************************)
(* Objects built by the constructors and the parsers                       *)
(***************************************************************************)
\* how many times e occurs in the sequence s
Count(s, e) == Cardinality({i \in 1..Len(s) : s[i] = e})
SamePairs(s, u) ==
    /\ Len(s) = Len(u)
    /\ \A i \in 1..Len(s) : Count(s, s[i]) = Count(u, s[i])
\* byte-lexicographic order of two keys, a proper prefix first
KeyLeq(k1, k2) == k1 = k2 \/ SeqLess(k1, k2)
Ascending(o) == \A i \in 1..(Len(o) - 1) : KeyLeq(o[i].key, o[i + 1].key)
StrictlyAscending(o) == \A i \in 1..(Len(o) - 1) : SeqLess(o[i].key, o[i + 1].key)

ObjectSources == {"Value(KeyValues)", "Value(initializer_list)", "parse", "unbinarize"}

\* C12: an object built by a constructor (a sequence of KeyValues, an
\* initializer list of pairs), by the text parser or by the binary parser is
\* an object that holds exactly the supplied entries, its keys() are in
\* ascending byte-lexicographic order of the keys, and iterating its values
\* follows the order of keys()
C12_ConstructedObjectsSorted ==
    op.name \in ObjectSources
        => /\ type(recv) = "object"
           /\ size(recv) = Len(op.supplied)
           /\ SamePairs(keys(recv), op.supplied)
           /\ Ascending(keys(recv))
           /\ Items(recv) = [i \in 1..size(recv) |-> keys(recv)[i].value]

\* the binary parser was handed b before ab, and ab comes first in keys()
C12_Witness ==
    /\ op.name = "unbinarize"
    /\ op.supplied = <<KeyValue(<<CH_b>>, Str(to_string(1), FALSE)),
                       KeyValue(<<CH_a, CH_b>>, Undefined)>>
    /\ keys(recv) = <<KeyValue(<<CH_a, CH_b>>, Undefined),
                      KeyValue(<<CH_b>>, Str(to_string(1), FALSE))>>

HasResult ==
    op.name \in {"filter_Value", "filter_KeyValue", "map_KeyValue_KeyValue",
                 "map_Value_KeyValue", "splice"}

\* C13: every object reachable through the constructors, the parsers,
\* merge_keys, set_keys, map and filter has keys() strictly increasing
C13_KeysStrictlyIncreasing ==
    /\ type(recv) = "object" => StrictlyAscending(keys(recv))
    /\ (HasResult /\ type(op.result) = "object") => StrictlyAscending(keys(op.result))

(***************************************************************************)
(* merge_keys and set_keys                                                 *)
(***************************************************************************)
Range(s) == {s[i] : i \in 1..Len(s)}
KeysOf(o) == {o[i].key : i \in 1..Len(o)}

\* C14: for sorted, duplicate-free objects a and b, a.merge_keys(b) makes a
\* the sorted object that holds exactly every entry of b with a defined
\* value and every entry of a whose key does not occur in b; a key that b
\* maps to undefined has no entry
C14_MergeOfSortedObjects ==
    (/\ op.name = "merge_keys"
     /\ StrictlyAscending(keys(op.before))
     /\ StrictlyAscending(keys(op.arg)))
        => /\ type(recv) = "object"
           /\ StrictlyAscending(keys(recv))
           /\ Range(keys(recv)) =
                 {kv \in Range(keys(op.arg)) : defined(kv.value)}
                 \cup {kv \in Range(keys(op.before)) : kv.key \notin KeysOf(keys(op.arg))}
           /\ KeysOf(keys(recv)) \subseteq KeysOf(keys(op.before)) \cup KeysOf(keys(op.arg))

\* {a: "1", b: "2"} merged with {a: undefined, ab: "2"}: a is deleted, ab
\* comes in between, b is kept
C14_Witness ==
    /\ op.name = "merge_keys"
    /\ keys(op.before) = <<KeyValue(<<CH_a>>, Str(to_string(1), FALSE)),
                           KeyValue(<<CH_b>>, Str(to_string(2), FALSE))>>
    /\ keys(op.arg) = <<KeyValue(<<CH_a>>, Undefined),
                        KeyValue(<<CH_a, CH_b>>, Str(to_string(2), FALSE))>>
    /\ keys(recv) = <<KeyValue(<<CH_a, CH_b>>, Str(to_string(2), FALSE)),
                      KeyValue(<<CH_b>>, Str(to_string(2), FALSE))>>

\* C15: after a.merge_keys(b) or a.set_keys(...) the receiver holds at most
\* one entry per key, and an entry whose key occurs on the right-hand side
\* is an entry of the right-hand side
C15_MergeEliminatesDuplicates ==
    op.name \in {"merge_keys", "set_keys"}
        => /\ \A i, j \in 1..size(recv) :
                 keys(recv)[i].key = keys(recv)[j].key => i = j
           /\ \A kv \in Range(keys(recv)) :
                 kv.key \in KeysOf(keys(op.arg)) => kv \in Range(keys(op.arg))

(***************************************************************************)
(* map and filter                                                          *)
(***************************************************************************)
\* the outputs of the function over the source, in source order
Outputs ==
    IF op.name = "map_KeyValue_KeyValue"
    THEN [i \in 1..Len(keys(op.before)) |-> FnKeyValueKeyValue(op.fn, keys(op.before)[i])]
    ELSE [i \in 1..Len(Items(op.before)) |-> FnValueKeyValue(op.fn, Items(op.before)[i])]
DefinedOutputs == SelectSeq(Outputs, LAMBDA kv : defined(kv.value))

\* C16: map with a function that returns a KeyValue yields an object whose
\* entries are exactly the outputs with a defined value, size() being their
\* number, in ascending key order
C16_MapYieldsSortedObject ==
    op.name \in {"map_KeyValue_KeyValue", "map_Value_KeyValue"}
        => /\ type(op.result) = "object"
           /\ size(op.result) = Len(DefinedOutputs)
           /\ SamePairs(keys(op.result), DefinedOutputs)
           /\ Ascending(keys(op.result))

OddItems == {IntV("int32", 1), Str(to_string(3), FALSE)}
Accepts(fn, x) ==
    CASE fn = "odd" -> x \in OddItems
      [] fn = "defined" -> x # Undefined
      [] fn = "never" -> FALSE
AcceptedAt(items, fn) == {i \in 1..Len(items) : Accepts(fn, items[i])}
\* the position in items of the j-th accepted element
NthAccepted(items, fn, j) ==
    CHOOSE i \in AcceptedAt(items, fn) :
        Cardinality({k \in AcceptedAt(items, fn) : k <= i}) = j

\* C18: filter with a Value predicate on an array returns a new array of
\* exactly the accepted elements in their order, size() being their number;
\* a string of digits is tested by the integer it reads as, and the
\* receiver is left as it was
C18_FilterArray ==
    (/\ op.name = "filter_Value"
     /\ type(op.before) = "array"
     /\ Range(op.before.a) \subseteq ArrayItems)
        => /\ type(op.result) = "array"
           /\ size(op.result) = Cardinality(AcceptedAt(op.before.a, op.fn))
           /\ \A j \in 1..size(op.result) :
                 op.result.a[j] = op.before.a[NthAccepted(op.before.a, op.fn, j)]
           /\ recv = op.before

\* [1, "4", "3"] filtered by odd: "4" reads as 4 and is dropped, "3" is kept
C18_Witness ==
    /\ op.name = "filter_Value" /\ op.fn = "odd"
    /\ op.before = Arr(<<IntV("int32", 1), Str(to_string(4), FALSE),
                         Str(to_string(3), FALSE)>>)
    /\ op.result = Arr(<<IntV("int32", 1), Str(to_string(3), FALSE)>>)
    /\ recv = op.before

\* C19: filter with a KeyValue predicate on an object returns an object of
\* exactly the accepted pairs in their order: size() and the length of
\* keys() are the number of accepted pairs
C19_FilterObject ==
    op.name = "filter_KeyValue"
        => LET accepted == SelectSeq(keys(op.before),
                                     LAMBDA kv : PredKeyValue(op.fn, kv))
           IN /\ type(op.result) = "object"
              /\ size(op.result) = Len(accepted)
              /\ keys(op.result) = accepted

(***************************************************************************)
(* splice, insert and erase                                                *)
(***************************************************************************)
\* C20: v.splice(from, to, new_begin, new_end) returns the array of the
\* elements [from, to) and leaves v the array of the elements before from,
\* the new range and the elements from to on; insert and erase leave v the
\* array extended or shortened in the same way
C20_SpliceLeavesArray ==
    op.name \in {"splice", "insert", "erase"}
        => /\ recv = Arr(SubSeq(op.before.a, 1, op.from) \o op.new_items
                         \o SubSeq(op.before.a, op.to + 1, Len(op.before.a)))
           /\ op.name = "splice"
                 => op.result = Arr(SubSeq(op.before.a, op.from + 1, op.to))

(***************************************************************************)
(* Value handles and the heap blocks they share                            *)
(* A handle holds a scalar (ref = 0, the Value in v) or points at a heap   *)
(* block of store (ref > 0, t the Storage tag).  A block keeps _refcnt,    *)
(* its elements and whether it has been deleted.                           *)
(***************************************************************************)
ScalarHandle(v) == [t |-> "scalar", ref |-> 0, v |-> v]
BlockHandle(tag, ref) == [t |-> tag, ref |-> ref, v |-> Undefined]
Block(items) == [refcnt |-> 1, items |-> items, live |-> TRUE]

\* what a reader of the handle sees
Content(h, st) ==
    IF h.ref = 0 THEN h.v
    ELSE IF h.t = "array" THEN Arr(st[h.ref].items) ELSE ObjRaw(st[h.ref].items)

\* Value(PContainer<Value>) / Value(PContainer<KeyValue>) of a container that
\* Container<T>::create has just allocated: _refcnt is 1
FromContainer(v, st) ==
    [h |-> BlockHandle(v.t, Len(st) + 1),
     store |-> Append(st, Block(IF v.t = "array" THEN v.a ELSE v.o))]

\* init_array / init_object: an empty container takes no block
Construct(v, st) ==
    IF v.t \in {"array", "object"} /\ size(v) > 0
    THEN FromContainer(v, st)
    ELSE [h |-> ScalarHandle(v), store |-> st]

\* Value::add_ref
add_ref(h, st) ==
    IF h.ref = 0 THEN st ELSE [st EXCEPT ![h.ref].refcnt = @ + 1]

\* Value::release: release_ref, and delete when it was the last reference
release(h, st) ==
    IF h.ref = 0 THEN st
    ELSE [st EXCEPT ![h.ref] =
             [@ EXCEPT !.refcnt = @ - 1,
                       !.live = IF st[h.ref].refcnt <= 1 THEN FALSE ELSE @]]

\* an assignment that overwrites the block the handle points at
move_assign_in_place(h, v, st) ==
    IF h.ref # 0 /\ v.t = h.t
    THEN [h |-> h, store |-> [st EXCEPT ![h.ref].items = IF v.t = "array" THEN v.a ELSE v.o]]
    ELSE IF v.t \in {"array", "object"}
    THEN FromContainer(v, release(h, st))
    ELSE [h |-> ScalarHandle(v), store |-> release(h, st)]

\* (*this) = Value(std::move(res)): operator=(Value &&) releases what the
\* handle held and takes over the new container
move_assign(h, v, st) ==
    IF v.t \in {"array", "object"}
    THEN FromContainer(v, release(h, st))
    ELSE [h |-> ScalarHandle(v), store |-> release(h, st)]

\* Container<T>::operator== behind Value::operator==
HandleEq(x, y, st) ==
    LET a == Content(x, st)
        b == Content(y, st)
    IN IF a.t \in {"array", "object"} /\ a.t = b.t
       THEN IF size(a) # size(b) THEN FALSE
            ELSE IF x.ref = y.ref THEN TRUE
            ELSE ValEq(a, b)
       ELSE ValEq(a, b)

\* Value::append(Value array)
append(v, array) == Arr(get_array(v) \o get_array(array))

MaxShared == 2      \* elements of a container that is shared
MaxCalls == 2       \* mutating calls made on one handle

SharedItems == {Undefined, IntV("int32", 1), Dbl(D_nan)}
SharedEntries == {KeyValue(k, v) : k \in {<<CH_a>>, <<CH_b>>}, v \in {Undefined, IntV("int32", 1)}}
SharedValues ==
    {Arr(s) : s \in SeqsUpTo(SharedItems, MaxShared)}
    \cup {Obj(s) : s \in SeqsUpTo(SharedEntries, MaxShared)}
    \cup {Undefined, Null, IntV("int32", 1)}

\* the calls that assign to *this
MutatingCalls ==
    {[name |-> "merge_keys", arg |-> Obj(<<kv>>)] :
        kv \in {KeyValue(<<CH_a>>, Undefined), KeyValue(<<CH_b>>, IntV("int32", 2))}}
    \cup {[name |-> "set_keys", arg |-> <<KeyValue(<<CH_a>>, IntV("int32", 2))>>]}
    \cup {[name |-> "append", arg |-> Arr(s)] : s \in {<<>>, <<IntV("int32", 2)>>}}
    \cup {[name |-> "insert", from |-> 0, arg |-> Arr(<<IntV("int32", 2)>>)]}
    \cup {[name |-> "erase", from |-> 0, to |-> to] : to \in {0, 1}}
    \cup {[name |-> "splice", from |-> 0, to |-> 1, arg |-> <<IntV("int32", 2)>>]}

\* the Value the call assigns to *this
Assigned(call, v) ==
    CASE call.name = "merge_keys" -> merge_keys(v, call.arg)
      [] call.name = "set_keys" -> set_keys(v, call.arg)
      [] call.name = "append" -> append(v, call.arg)
      [] call.name = "insert" -> insert(v, call.from, call.arg)
      [] call.name = "erase" -> erase(v, call.from, call.to)
      [] call.name = "splice" -> splice(v, call.from, call.to, call.arg).self

\* the positions handed to the call lie inside the array
Fits(call, v) ==
    /\ call.name \in {"insert"} => call.from <= size(v)
    /\ call.name \in {"erase", "splice"} => call.from <= call.to /\ call.to <= size(v)

\* the calls that return a new Value and leave *this alone
ReturningCalls ==
    {[name |-> "filter_Value", fn |-> fn] : fn \in PredValues}
    \cup {[name |-> "filter_KeyValue", fn |-> fn] : fn \in PredKeyValues}
    \cup {[name |-> "map_Value_KeyValue", fn |-> fn] : fn \in FnValueKeyValues}
    \cup {[name |-> "map_KeyValue_KeyValue", fn |-> fn] : fn \in FnKeyValueKeyValues}

\* the caller's function reads its argument through get_int, which is
\* called on integers and strings only
ReadsInt(call) ==
    \/ call.name \in {"filter_Value", "filter_KeyValue"} /\ call.fn = "odd"
    \/ call.name = "map_Value_KeyValue"
    \/ call.name = "map_KeyValue_KeyValue" /\ call.fn = "odd_only"
Answers(call, v) ==
    ReadsInt(call) => \A i \in 1..Len(Items(v)) : Items(v)[i].t # "dnum"

Returned(call, v) ==
    CASE call.name = "filter_Value" -> filter_Value(v, call.fn)
      [] call.name = "filter_KeyValue" -> filter_KeyValue(v, call.fn)
      [] call.name = "map_Value_KeyValue" -> map_Value_KeyValue(v, call.fn)
      [] call.name = "map_KeyValue_KeyValue" -> map_KeyValue_KeyValue(v, call.fn)

Handles == {"a", "b", "c"}
NoHandle == ScalarHandle(Undefined)
Apart == <<p, pc, ret, input, fed, nwrites, proto, ser, sval, sout, chunks,
           val, bytes, outcome, recv, blk, thr>>

\* Value a = ...: a freshly constructed Value
ShareInit ==
    /\ ParserIdle
    /\ SerializerIdle
    /\ OneShotIdle
    /\ recv = Undefined /\ op = [name |-> "none", calls |-> 0]
    /\ ThreadsIdle
    /\ \E v \in SharedValues :
       \E m \in {Construct(v, <<>>)} :
          /\ hnd = [a |-> m.h, b |-> NoHandle, c |-> NoHandle]
          /\ store = m.store

\* Value b = a: the copy constructor copies the handle and calls add_ref
CopyConstruct ==
    /\ op.name = "none" /\ hnd.b = NoHandle /\ hnd.c = NoHandle
    /\ hnd' = [hnd EXCEPT !.b = hnd.a]
    /\ store' = add_ref(hnd.a, store)
    /\ op' = [name |-> "copy", calls |-> 0]
    /\ UNCHANGED Apart

\* Value c built on its own from the elements a holds
Rebuild ==
    /\ op.name \in {"none", "copy"} /\ hnd.c = NoHandle
    /\ \E m \in {Construct(Content(hnd.a, store), store)} :
          /\ hnd' = [hnd EXCEPT !.c = m.h]
          /\ store' = m.store
    /\ op' = [name |-> "rebuild", calls |-> 0]
    /\ UNCHANGED Apart

\* a.merge_keys(...), a.set_keys(...), a.append(...), a.insert(...),
\* a.erase(...), a.splice(...): each ends in (*this) = Value(std::move(res))
SharedCall ==
    /\ op.name # "none" /\ op.calls < MaxCalls
    /\ \E call \in {c \in MutatingCalls : Fits(c, Content(hnd.a, store))} :
       \E m \in {move_assign(hnd.a, Assigned(call, Content(hnd.a, store)), store)} :
          /\ hnd' = [hnd EXCEPT !.a = m.h]
          /\ store' = m.store
          /\ op' = [name |-> call.name, calls |-> op.calls + 1, before |-> hnd.a]
    /\ UNCHANGED Apart

\* r = a.filter(...), r = a.map(...)
SharedQuery ==
    /\ op.name # "none" /\ op.calls < MaxCalls
    /\ \E call \in {c \in ReturningCalls : Answers(c, Content(hnd.a, store))} :
          op' = [name |-> call.name, calls |-> op.calls + 1, before |-> hnd.a,
                 result |-> Returned(call, Content(hnd.a, store))]
    /\ UNCHANGED <<Apart, hnd, store>>

\* x == y
Compare ==
    /\ op.name # "none"
    /\ \E x, y \in Handles :
          op' = [name |-> "==", calls |-> op.calls, lhs |-> x, rhs |-> y,
                 result |-> HandleEq(hnd[x], hnd[y], store)]
    /\ UNCHANGED <<Apart, hnd, store>>

ShareNext == CopyConstruct \/ Rebuild \/ SharedCall \/ SharedQuery \/ Compare

ShareSpec == ShareInit /\ [][ShareNext]_vars

CallNames ==
    {"merge_keys", "set_keys", "append", "insert", "erase", "splice",
     "filter_Value", "filter_KeyValue", "map_Value_KeyValue", "map_KeyValue_KeyValue"}

\* C21: when two Values share one container, a merge_keys, set_keys,
\* append, insert, erase, splice, map or filter call on one of them leaves
\* the other one as it was: the same handle, the same type, size, elements
\* and keys, and its block not deleted
C21_OtherHolderUndisturbed ==
    [][op'.name \in CallNames
          => \A h \in {"b", "c"} :
                /\ hnd'[h] = hnd[h]
                /\ Content(hnd[h], store)' = Content(hnd[h], store)
                /\ hnd[h].ref # 0 => store'[hnd[h].ref].live]_vars

\* b shares the block a was built on; a.merge_keys({b: 2}) has moved a to a
\* block of its own
C21_Witness ==
    /\ op.name = "merge_keys"
    /\ hnd.b.ref # 0 /\ hnd.b.ref = op.before.ref /\ hnd.a.ref # hnd.b.ref
    /\ Content(hnd.b, store) = ObjRaw(<<KeyValue(<<CH_a>>, IntV("int32", 1))>>)
    /\ Content(hnd.a, store) = ObjRaw(<<KeyValue(<<CH_a>>, IntV("int32", 1)),
                                        KeyValue(<<CH_b>>, IntV("int32", 2))>>)

(***************************************************************************)
(* Threads that copy and destroy their handles to one heap container       *)
(* blk is the container: _refcnt, how many times it has been deleted and   *)
(* whether it has been accessed after a delete.  thr[t].held counts the    *)
(* handles thread t has finished constructing and not yet destroyed.       *)
(***************************************************************************)
MaxThreads == 3     \* threads holding the container
MaxHeld == 3        \* handles one thread holds at a time

Threads == 1..MaxThreads

\* a release_ref that takes the last but one reference for the last
release_ref_early(refcnt) == [refcnt |-> refcnt - 1, last |-> refcnt <= 2]

\* RefCounted::release_ref: _refcnt.fetch_sub(1) <= 1
release_ref(refcnt) == [refcnt |-> refcnt - 1, last |-> refcnt <= 1]

\* an access to the container: it is stale once the container is deleted
Touch(b) == [b EXCEPT !.stale = @ \/ b.deletes > 0]

Besides == <<p, pc, ret, input, fed, nwrites, proto, ser, sval, sout, chunks,
             val, bytes, outcome, recv, op, hnd, store>>

\* every thread has been handed one handle to the container
RefInit ==
    /\ ParserIdle
    /\ SerializerIdle
    /\ OneShotIdle
    /\ ContainersIdle
    /\ SharingIdle
    /\ blk = [refcnt |-> MaxThreads, deletes |-> 0, stale |-> FALSE]
    /\ thr = [t \in Threads |-> [pc |-> "idle", held |-> 1]]

\* Value(const Value &other): _un and _storage are copied from a handle the
\* thread holds
CopyBegin(t) ==
    /\ thr[t].pc = "idle" /\ thr[t].held >= 1 /\ thr[t].held < MaxHeld
    /\ thr' = [thr EXCEPT ![t].pc = "add_ref"]
    /\ UNCHANGED <<Besides, blk>>

\* ... and add_ref: _refcnt.fetch_add(1)
AddRef(t) ==
    /\ thr[t].pc = "add_ref"
    /\ blk' = [Touch(blk) EXCEPT !.refcnt = @ + 1]
    /\ thr' = [thr EXCEPT ![t].pc = "idle", ![t].held = @ + 1]
    /\ UNCHANGED Besides

\* a read through a handle the thread holds
ReadShared(t) ==
    /\ thr[t].pc = "idle" /\ thr[t].held >= 1
    /\ blk' = Touch(blk)
    /\ UNCHANGED <<Besides, thr>>

\* ~Value(): release calls release_ref on the container
Drop(t) ==
    /\ thr[t].pc = "idle" /\ thr[t].held >= 1
    /\ \E r \in {release_ref(blk.refcnt)} :
          /\ blk' = [Touch(blk) EXCEPT !.refcnt = r.refcnt]
          /\ thr' = [thr EXCEPT ![t].pc = IF r.last THEN "delete" ELSE "idle",
                                ![t].held = @ - 1]
    /\ UNCHANGED Besides

\* ... and, when release_ref said so, delete v._un.array
Delete(t) ==
    /\ thr[t].pc = "delete"
    /\ blk' = [Touch(blk) EXCEPT !.deletes = @ + 1]
    /\ thr' = [thr EXCEPT ![t].pc = "idle"]
    /\ UNCHANGED Besides

RefNext ==
    \E t \in Threads :
        CopyBegin(t) \/ AddRef(t) \/ ReadShared(t) \/ Drop(t) \/ Delete(t)

RefSpec == RefInit /\ [][RefNext]_vars

RECURSIVE HeldBy(_)
\* the handles the threads 1..n hold
HeldBy(n) == IF n = 0 THEN 0 ELSE thr[n].held + HeldBy(n - 1)
LiveHandles == HeldBy(MaxThreads)

\* C22: under every interleaving of threads that copy-construct and destroy
\* their own handles to one shared container, the reference count is the
\* number of live handles, the container is deleted exactly once, by the
\* drop of the last handle, and it is never accessed after the delete
C22_RefcountMatchesHandles ==
    thr # <<>>
        => /\ blk.refcnt = LiveHandles
           /\ blk.deletes <= 1
           /\ blk.deletes = 1 => LiveHandles = 0
           /\ (LiveHandles = 0 /\ \A t \in Threads : thr[t].pc = "idle") => blk.deletes = 1
           /\ (\E t \in Threads : thr[t].pc = "delete")
                 => LiveHandles = 0 /\ blk.deletes = 0
           /\ ~blk.stale

\* every thread has dropped every handle it held, and the block has been
\* deleted once
C22_Witness ==
    /\ thr # <<>>
    /\ LiveHandles = 0 /\ blk.refcnt = 0 /\ blk.deletes = 1
    /\ \A t \in Threads : thr[t].pc = "idle"

(***************************************************************************)
(* Value::operator==                                                       *)
(***************************************************************************)
\* C23: operator== is false whenever one operand is undefined, also when
\* both are and when a Value is compared with itself
C23_UndefinedNeverEqual ==
    (/\ op.name = "=="
     /\ \/ Content(hnd[op.lhs], store) = Undefined
        \/ Content(hnd[op.rhs], store) = Undefined)
        => op.result = FALSE

\* a is undefined and has been compared with itself
C23_Witness ==
    /\ op.name = "==" /\ op.lhs = "a" /\ op.rhs = "a"
    /\ Content(hnd.a, store) = Undefined
    /\ op.result = FALSE

\* C24: for containers a and c with the same elements in the same order,
\* a == c, c built on its own, answers what a == b answers for b a copy
\* that shares a's container
C24_EqualityIgnoresSharing ==
    (/\ op.name = "==" /\ op.lhs = "a" /\ op.rhs = "c"
     /\ hnd.a.ref # 0 /\ hnd.b = hnd.a
     /\ hnd.c.ref # 0 /\ hnd.c.ref # hnd.a.ref
     /\ Content(hnd.c, store) = Content(hnd.a, store))
        => op.result = HandleEq(hnd.a, hnd.b, store)

(***************************************************************************)
(* Numbers the text parser is to accept                                    *)
(***************************************************************************)
IsNumber(v) == type(v) = "number"
\* the parser has finished without error and its result is a number, or a
\* container whose only element is a number
EndedWithNumber ==
    /\ pc = "idle" /\ ~ret /\ ~is_error(p)
    /\ \E v \in {get_result(p)} :
          \/ IsNumber(v)
          \/ type(v) \in {"array", "object"} /\ size(v) = 1 /\ IsNumber(Items(v)[1])

\* C25: a '+', a valid unsigned JSON number and a terminator byte parse
\* without error to a number
C25_LeadingPlusAccepted ==
    (FeedingEnded /\ input \in PlusTexts) => EndedWithNumber

\* C26: the unquoted literals for infinity and minus infinity, where a value
\* is expected, parse without error to a number
C26_InfinityLiteralAccepted ==
    (FeedingEnded /\ input \in InfinityTexts) => EndedWithNumber

(***************************************************************************)
(* What write() leaves unprocessed                                         *)
(***************************************************************************)
\* the first write() that answered false, every one before having answered
\* true
FirstFalse == proto /\ nwrites >= 1 /\ pc = "idle" /\ ~ret

\* bytes of the input the parser has stepped over
Consumed == fed - Len(get_unprocessed_data(p))

\* the byte a JSON text of a value of this type ends with
EndsText(v, c) ==
    CASE type(v) = "number" -> IsNumberChar(c)
      [] type(v) = "string" -> c = QUOTE
      [] type(v) = "array" -> c = RBRACKET
      [] type(v) = "object" -> c = RBRACE
      [] type(v) = "boolean" -> c = CH_e
      [] type(v) = "null" -> c = 108
      [] OTHER -> FALSE

\* C27: after write(chunk) answered true nothing of the chunk is left
\* unprocessed; after it answered false the unprocessed data are the rest of
\* that chunk behind the last consumed byte, and the consumed bytes end
\* where the value ends or the error shows: no shorter run of them ends the
\* parse, and a text value's last consumed byte is the last byte of its
\* text.
C27_UnprocessedIsTheRest ==
    /\ (pc = "idle" /\ nwrites >= 1 /\ ret) => get_unprocessed_data(p) = <<>>
    /\ (pc = "idle" /\ nwrites >= 1 /\ ~ret) =>
           /\ p.pos >= 1 /\ p.pos <= Len(p.text) + 1
           /\ get_unprocessed_data(p) \o SubSeq(input, fed + 1, Len(input))
                  = SubSeq(input, fed - (Len(p.text) - p.pos), Len(input))
    /\ FirstFalse =>
           /\ \A k \in 0..(Consumed - 1) :
                  \E w \in {write(Parser_Fn(p.fmt, p.fn), SubSeq(input, 1, k))} :
                      ~w.spin /\ w.more /\ ~is_error(w.p)
           /\ (p.fmt = "text" /\ ~is_error(p)) =>
                  /\ Consumed >= 1
                  /\ EndsText(get_result(p), input[Consumed])
           /\ (p.fmt = "binary" /\ ~is_error(p)) =>
                  \E w \in {write(Parser_Fn(p.fmt, p.fn), SubSeq(input, 1, Consumed))} :
                      /\ ~w.spin /\ ~w.more /\ ~is_error(w.p)
                      /\ get_result(w.p) = get_result(p)
                      /\ get_unprocessed_data(w.p) = <<>>

\* a document is parsed from two chunks and the two bytes behind its closing
\* brace are left unprocessed
C27_Witness ==
    /\ FirstFalse /\ ~is_error(p)
    /\ nwrites = 2
    /\ input = <<LBRACE, QUOTE, CH_a, QUOTE, COLON, LBRACKET, CH_t, CH_r, CH_u, CH_e, COMMA,
                 CH_n, CH_u, 108, 108, RBRACKET, RBRACE, SPACE, CH_1>>
    /\ fed = Len(input)
    /\ Len(p.text) = 9
    /\ get_unprocessed_data(p) = <<SPACE, CH_1>>

(***************************************************************************)
(* The calls of the preprocessor                                           *)
(***************************************************************************)
Unmatched == [t |-> "unmatched"]

RECURSIVE Replay(_, _, _)
\* the values left to be installed after the calls of log, one by one: a
\* scalar is returned by the preprocessor and waits for its container; an
\* array takes the values returned for its elements, an object those
\* returned for its keys and values, each key before its value, and the
\* container is what the preprocessor is called with next
Replay(fn, log, stack) ==
    IF log = <<>> THEN stack
    ELSE LET v == Head(log)
             n == CASE v.t = "array" -> Len(v.a)
                    [] v.t = "object" -> 2 * Len(v.o)
                    [] OTHER -> 0
         IN IF Len(stack) < n THEN <<Unmatched>>
            ELSE LET kids == SubSeq(stack, Len(stack) - n + 1, Len(stack))
                     rest == SubSeq(stack, 1, Len(stack) - n)
                     ok == CASE v.t = "array" -> kids = v.a
                             [] v.t = "object" ->
                                  /\ \A i \in 1..Len(v.o) : kids[2 * i - 1].t = "string"
                                  /\ v = Obj([i \in 1..Len(v.o) |->
                                               KeyValue(kids[2 * i - 1].s, kids[2 * i])])
                             [] OTHER -> TRUE
                 IN IF ok THEN Replay(fn, Tail(log), Append(rest, preproc(fn, v)))
                    ELSE <<Unmatched>>

IsString(v) == v.t = "string"
\* the strings the preprocessor was called with, in the order of the calls
LoggedStrings(log) == SelectSeq(log, IsString)

ParsedWithoutError == p.state = <<>> /\ ~is_error(p)

\* C28: when a parse has succeeded the preprocessor has been called once
\* for every value, the elements of a container before the container and in
\* the order of the source, each key before its value; every container was
\* built from what the preprocessor returned for its elements, the result
\* is what it returned for the root, and no length or count of the binary
\* format was passed to it.
C28_PreprocessorCalls ==
    ParsedWithoutError =>
        /\ Replay(p.fn, p.log, <<>>) = <<get_result(p)>>
        /\ input \in {UnsortedText, UnsortedBin} =>
               LoggedStrings(p.log) = <<Str(<<CH_b>>, FALSE), Str(<<CH_a>>, FALSE)>>

\* {"b":[null,false],"a":true} was parsed from binary data under the
\* preprocessor that changes what it is given
C28_Witness ==
    /\ ParsedWithoutError
    /\ p.fmt = "binary" /\ p.fn = "mark"
    /\ input = UnsortedBin
    /\ p.log = <<Str(<<CH_b>>, FALSE), Null, Bool(FALSE),
                 Arr(<<Bool(FALSE), Bool(TRUE)>>), Str(<<CH_a>>, FALSE), Bool(TRUE),
                 Obj(<<KeyValue(<<CH_b>>, Arr(<<Bool(FALSE), Bool(TRUE), Null>>)),
                       KeyValue(<<CH_a>>, Null)>>)>>
    /\ get_result(p) = Obj(<<KeyValue(<<CH_a>>, Null),
                             KeyValue(<<CH_b>>, Arr(<<Bool(FALSE), Bool(TRUE), Null>>))>>)

(***************************************************************************)
(* Integers in the binary format: a Value holding an integer is serialized *)
(* by read() after read(), and the bytes are handed to unbinarize          *)
(***************************************************************************)
IntMagnitudes ==
    {0, 1, 255, 256, 65535, 65536, 16777215, 16777216, 2147483647}
IntValues ==
    {IntV(st, n) : st \in {"int32", "uint32", "int64", "uint64"}, n \in IntMagnitudes}
        \cup {IntV(st, -n) : st \in {"int32", "int64"}, n \in IntMagnitudes \ {0}}
        \cup {IntV("int32", INT_MIN), IntV("int64", INT_MIN)}

Negations == {"wraps", "widens"}

IntInit ==
    /\ sval \in IntValues
    /\ \E o \in Negations : ser = [Serializer("binary", sval) EXCEPT !.negation = o]
    /\ sout = <<>>
    /\ chunks = <<>>
    /\ ParserIdle
    /\ OneShotIdle
    /\ ContainersIdle
    /\ SharingIdle
    /\ ThreadsIdle

\* the number in the bytes of an integer of the binary format is below 2^31
BelowTwoTo31(b) == Len(b) <= 4 \/ (Len(b) = 5 /\ b[2] < 128)

\* unbinarize(binarize(v)), for the numbers up to 2^31 - 1
UnbinarizeInt ==
    /\ ser.stack = <<>> /\ chunks # <<>>
    /\ outcome.kind = "none"
    /\ BelowTwoTo31(sout)
    /\ outcome' = unbinarize(sout)
    /\ UNCHANGED <<p, pc, ret, input, fed, nwrites, proto, ser, sval, sout, chunks, val, bytes,
                 recv, op, hnd, store, blk, thr>>

IntNext == Read \/ UnbinarizeInt
IntSpec == IntInit /\ [][IntNext]_vars

RECURSIVE Base256(_)
\* the digits of m to the base 256, the highest first, at least one
Base256(m) == IF m < 256 THEN <<m>> ELSE Append(Base256(m \div 256), m % 256)
\* |n| in the fewest bytes
Magnitude(n) ==
    IF n = INT_MIN THEN <<128, 0, 0, 0>> ELSE Base256(IF n < 0 THEN -n ELSE n)

\* C29: an integer n is written as the byte 0x10 (n >= 0) or 0x18 (n < 0)
\* plus k - 1, followed by |n| in k bytes, the highest first, k the least
\* number of bytes, at least one, that hold |n|; unbinarize of these bytes
\* is an integer with the value n.
C29_IntegerEncoding ==
    (ser.fmt = "binary" /\ ser.stack = <<>> /\ chunks # <<>> /\ sval.t = "int") =>
        /\ sout = <<(IF sval.n >= 0 THEN 16 ELSE 24) + Len(Magnitude(sval.n)) - 1>>
                      \o Magnitude(sval.n)
        /\ outcome.kind # "none" =>
               /\ outcome.kind = "value"
               /\ outcome.value.t = "int"
               /\ outcome.value.n = sval.n

(***************************************************************************)
(* Strings through stringify and parse                                     *)
(***************************************************************************)
IsPlain(s) == \A i \in 1..Len(s) : s[i] >= 32 /\ s[i] # QUOTE /\ s[i] # BACKSLASH

\* C30: for every string s holding no byte below 0x20, no quotation mark
\* and no backslash, parse(stringify(Value(s))) returns a string whose
\* get_string() is s.
C30_PlainStringRoundTrip ==
    (TripEnded("text") /\ val.t = "string" /\ ~val.num /\ IsPlain(val.s))
        => /\ pc = "returned"
           /\ outcome.kind = "value"
           /\ type(outcome.value) = "string"
           /\ get_string(outcome.value) = val.s

\* a string of two bytes that are no ASCII characters went through
\* stringify and parse
C30_Witness ==
    /\ TripEnded("text") /\ pc = "returned"
    /\ val = Str(<<226, 128>>, FALSE)
    /\ bytes = <<QUOTE, 226, 128, QUOTE>>
    /\ outcome = [kind |-> "value", value |-> Str(<<226, 128>>, FALSE)]

(***************************************************************************)
(* Escapes in the strings of the text format                               *)
(***************************************************************************)
EscapeNames == {QUOTE, BACKSLASH, SLASH, CH_b, CH_f, CH_n, CH_r, CH_t, CH_u}

\* the text between the quotation marks of a string
Unquoted(text) == SubSeq(text, 2, Len(text) - 1)

RECURSIVE WithoutInvalidEscapes(_)
\* s without every backslash that stands in front of a byte naming no
\* escape, and without that byte
WithoutInvalidEscapes(s) ==
    IF s = <<>> THEN <<>>
    ELSE IF s[1] # BACKSLASH \/ Len(s) = 1
    THEN <<s[1]>> \o WithoutInvalidEscapes(Tail(s))
    ELSE IF s[2] \in EscapeNames
    THEN <<s[1], s[2]>> \o WithoutInvalidEscapes(SubSeq(s, 3, Len(s)))
    ELSE WithoutInvalidEscapes(SubSeq(s, 3, Len(s)))

\* C31: a backslash in front of a byte that names no escape is consumed and
\* nothing is put out for it: the string parsed is the decoding of the
\* text around it.
C31_InvalidEscapeSkipped ==
    (FeedingEnded /\ input \in InvalidEscapeTexts) =>
        /\ pc = "idle" /\ ~ret /\ ~is_error(p)
        /\ get_result(p) =
               Str(decode_json_string(WithoutInvalidEscapes(Unquoted(input))), FALSE)

RECURSIVE Continuation(_, _)
\* the n continuation bytes of UTF-8 that hold the low 6 * n bits of cp
Continuation(cp, n) ==
    IF n = 0 THEN <<>> ELSE Append(Continuation(cp \div 64, n - 1), 128 + (cp % 64))
\* UTF-8 as the Unicode standard defines it
Utf8Encoding(cp) ==
    CASE cp < 128 -> <<cp>>
      [] cp >= 128 /\ cp < 2048 -> <<192 + cp \div 64>> \o Continuation(cp, 1)
      [] cp >= 2048 /\ cp < 65536 -> <<224 + cp \div 4096>> \o Continuation(cp, 2)
      [] cp >= 65536 -> <<240 + cp \div 262144>> \o Continuation(cp, 3)

\* the code point a case stands for
CodePoint(c) ==
    IF c.lo = 0 THEN c.hi ELSE 65536 + (c.hi - 55296) * 1024 + (c.lo - 56320)

\* C32: a high surrogate escape followed by a low surrogate escape decodes
\* to the four bytes of UTF-8 of 0x10000 + ((H - 0xD800) << 10) +
\* (L - 0xDC00); an escape outside the surrogate ranges decodes to the one
\* to three bytes of UTF-8 of its number.
C32_UnicodeEscapes ==
    \A c \in UnicodeCases :
        (FeedingEnded /\ input = UnicodeText(c)) =>
            /\ pc = "idle" /\ ~ret /\ ~is_error(p)
            /\ get_result(p) = Str(<<CH_a>> \o Utf8Encoding(CodePoint(c)) \o <<CH_b>>, FALSE)
            /\ Len(Utf8Encoding(CodePoint(c))) \in (IF c.lo = 0 THEN 1..3 ELSE {4})

\* "a\ud83d\ude00b" was parsed from two chunks, the first ending inside the
\* pair
C32_Witness ==
    /\ FeedingEnded /\ pc = "idle" /\ ~ret /\ ~is_error(p)
    /\ input = UnicodeText([hi |-> 55357, lo |-> 56832, small |-> TRUE])
    /\ nwrites = 2 /\ Len(p.text) = 8
    /\ get_result(p) = Str(<<CH_a, 240, 159, 152, 128, CH_b>>, FALSE)

(***************************************************************************)
(* Custom values: a Value holding custom value objects, some of them more  *)
(* than once, is serialized by read() after read()                         *)
(***************************************************************************)
CustomIds == {1, 2, 3}
CustomDocs ==
    {Custom(id) : id \in CustomIds} \cup
    {Arr(<<Custom(i), Custom(j)>>) : i \in CustomIds, j \in CustomIds} \cup
    {Arr(<<Custom(1), Custom(2), Custom(1)>>),
     Arr(<<Arr(<<Custom(2)>>), Custom(2), Null>>),
     Obj(<<KeyValue(<<CH_a>>, Custom(1)), KeyValue(<<CH_b>>, Custom(1))>>)}

CustomInit ==
    /\ sval \in CustomDocs
    /\ \E fmt \in Formats : ser = Serializer(fmt, sval)
    /\ sout = <<>>
    /\ chunks = <<>>
    /\ ParserIdle
    /\ OneShotIdle
    /\ ContainersIdle
    /\ SharingIdle
    /\ ThreadsIdle

CustomNext == Read
CustomSpec == CustomInit /\ [][CustomNext]_vars

RECURSIVE Projected(_)
\* v with every custom value replaced by what its to_json() returns
Projected(v) ==
    CASE v.t = "custom" -> Projected(to_json(v.id))
      [] v.t = "array" -> Arr([i \in 1..Len(v.a) |-> Projected(v.a[i])])
      [] v.t = "object" ->
           Obj([i \in 1..Len(v.o) |-> KeyValue(v.o[i].key, Projected(v.o[i].value))])
      [] OTHER -> v

RECURSIVE CustomsIn(_)
\* the custom value objects a serialization of v comes across
CustomsIn(v) ==
    CASE v.t = "custom" -> {v.id} \cup CustomsIn(to_json(v.id))
      [] v.t = "array" -> UNION {CustomsIn(v.a[i]) : i \in 1..Len(v.a)}
      [] v.t = "object" -> UNION {CustomsIn(v.o[i].value) : i \in 1..Len(v.o)}
      [] OTHER -> {}

NumberEnds ==
    /\ pc = "writing"
    /\ p.state # <<>>
    /\ Top(p).k = "StateNumber"
    /\ pc' # "spin"
    /\ Len(p'.state) < Len(p.state)

\* the bytes with which the frame of an array or of an object goes on after
\* an element
Separators(k) == IF k = "StateArray" THEN {COMMA, RBRACKET} ELSE {COMMA, RBRACE}

\* C34: the step in which the Number state finishes a number consumes the
\* bytes of the number and not the byte after them.  For a number at top
\* level (and for one that is refused as the key of an object) write()
\* returns false and that byte is the first of get_unprocessed_data(); for
\* a number in an array or an object the frame of the container examines
\* that byte in the next step: it consumes a separator or white space and
\* reports any other byte as an error without consuming it.
C34_NumberTerminatorKept ==
    [][NumberEnds =>
          /\ p'.text = p.text
          /\ p'.pos >= p.pos /\ p'.pos <= Len(p.text)
          /\ \A i \in p.pos..(p'.pos - 1) : IsNumberChar(p.text[i])
          /\ ~IsNumberChar(Cur(p'))
          /\ IF p'.state = <<>> \/ is_error(p')
             THEN /\ pc' = "idle" /\ ret' = FALSE
                  /\ Head(get_unprocessed_data(p')) = Cur(p')
                  /\ p'.state = <<>> =>
                         get_result(p') =
                             preproc(p.fn, Str(Top(p).data \o SubSeq(p.text, p.pos, p'.pos - 1),
                                               TRUE))
             ELSE /\ pc' = "writing"
                  /\ Top(p').k \in {"StateArray", "StateObject"}
                  /\ \E r \in {do_parse_cycle(p')} :
                        /\ ~r.spin
                        /\ Cur(p') \in Separators(Top(p').k) =>
                               ~is_error(r.p) /\ r.p.pos = p'.pos + 1
                        /\ isspace(Cur(p')) => r.p.pos > p'.pos
                        /\ (Cur(p') \notin Separators(Top(p').k) /\ ~isspace(Cur(p'))) =>
                               is_error(r.p) /\ r.p.pos = p'.pos]_vars

\* the number of [1] has been appended to the array and the closing
\* bracket is the current byte
C34_Witness ==
    /\ pc = "writing"
    /\ input = <<LBRACKET, CH_1, RBRACKET>>
    /\ p.state # <<>>
    /\ Top(p).k = "StateArray"
    /\ Top(p).data = <<Str(<<CH_1>>, TRUE)>>
    /\ ~AtEnd(p)
    /\ Cur(p) = RBRACKET

(***************************************************************************)
(* The separators of arrays and objects                                    *)
(***************************************************************************)
RECURSIVE Elements(_)
\* the tokens of a body as the parser meets them: adjacent digits are one
\* number, spaces between tokens are skipped
Elements(body) ==
    IF body = <<>> THEN <<>>
    ELSE IF Head(body) = "sp" THEN Elements(Tail(body))
    ELSE IF Head(body) = "num" /\ Len(body) >= 2 /\ body[2] = "num" THEN Elements(Tail(body))
    ELSE <<Head(body)>> \o Elements(Tail(body))

\* elements and commas alternate, beginning and ending with an element
Alternates(e) ==
    e = <<>> \/
    /\ Len(e) % 2 = 1
    /\ \A i \in 1..Len(e) : (e[i] = "comma") = (i % 2 = 0)
    /\ \A i \in 1..Len(e) : i % 2 = 1 => e[i] \in {"num", "str"}

\* entries and commas alternate; an entry is a string, a colon and a value
EntriesAlternate(e) ==
    e = <<>> \/
    /\ Len(e) % 4 = 3
    /\ \A i \in 1..Len(e) :
          CASE i % 4 = 1 -> e[i] = "str"
            [] i % 4 = 2 -> e[i] = "colon"
            [] i % 4 = 3 -> e[i] \in {"num", "str"}
            [] OTHER -> e[i] = "comma"

WellSeparated(g) ==
    IF g.kind = "array" THEN Alternates(Elements(g.body))
    ELSE EntriesAlternate(Elements(g.body))

RECURSIVE Tokens(_)
\* the tokens a text between brackets is written with; "other" where the
\* text is not made of the tokens
Tokens(b) ==
    IF b = <<>> THEN <<>>
    ELSE IF Head(b) = COMMA THEN <<"comma">> \o Tokens(Tail(b))
    ELSE IF Head(b) = COLON THEN <<"colon">> \o Tokens(Tail(b))
    ELSE IF Head(b) = SPACE THEN <<"sp">> \o Tokens(Tail(b))
    ELSE IF Head(b) = CH_1 THEN <<"num">> \o Tokens(Tail(b))
    ELSE IF Len(b) >= 3 /\ SubSeq(b, 1, 3) = TokenBytes("str")
    THEN <<"str">> \o Tokens(SubSeq(b, 4, Len(b)))
    ELSE <<"other">>

\* the input is one array or one object of the tokens
Bracketed(text) ==
    /\ Len(text) >= 2
    /\ \/ text[1] = LBRACKET /\ text[Len(text)] = RBRACKET
       \/ text[1] = LBRACE /\ text[Len(text)] = RBRACE
    /\ \E b \in {Tokens(SubSeq(text, 2, Len(text) - 1))} :
          \A i \in 1..Len(b) : b[i] # "other"
GrammarCase(text) ==
    [kind |-> IF text[1] = LBRACKET THEN "array" ELSE "object",
     body |-> Tokens(SubSeq(text, 2, Len(text) - 1))]

\* C35: fed an array or an object of the tokens above, the text parser ends
\* without error, with a container of the elements or entries written,
\* exactly when elements (entries: a string key, a colon, a value) and
\* commas alternate between the brackets; a leading comma, a trailing comma,
\* two commas in a row, two elements with no comma, a key that is no string
\* and a colon missing or out of place each end in the error state.
C35_SeparatorsAlternate ==
    (FeedingEnded /\ p.fmt = "text" /\ p.fn = "empty" /\ Bracketed(input)) =>
        \E g \in {GrammarCase(input)} :
            /\ pc = "idle" /\ ~ret
            /\ is_error(p) = ~WellSeparated(g)
            /\ WellSeparated(g) =>
                   /\ get_unprocessed_data(p) = <<>> /\ fed = Len(input)
                   /\ type(get_result(p)) = g.kind
                   /\ g.kind = "array" =>
                          Len(get_result(p).a) = (Len(Elements(g.body)) + 1) \div 2
                   /\ g.kind = "object" =>
                          Len(get_result(p).o) <= (Len(Elements(g.body)) + 1) \div 4
            /\ ~WellSeparated(g) => get_result(p) = Undefined

\* ["a",1,] has been fed: the bracket after the comma is refused
C35_Witness ==
    /\ FeedingEnded /\ p.fmt = "text" /\ p.fn = "empty"
    /\ input = GrammarText([kind |-> "array", body |-> <<"str", "comma", "num", "comma">>])
    /\ is_error(p)
    /\ Head(get_unprocessed_data(p)) = RBRACKET

(***************************************************************************)
(* Copy assignment from an element of the assigned Value: v = v[i]         *)
(***************************************************************************)
\* Value::operator[](unsigned int): a reference to the element inside the
\* block (slot is the block), or to the static undefined (slot 0)
element_at(h, index, st) ==
    IF h.ref # 0 /\ index < Len(st[h.ref].items)
    THEN [slot |-> h.ref,
          v |-> IF h.t = "array" THEN st[h.ref].items[index + 1]
                ELSE st[h.ref].items[index + 1].value]
    ELSE [slot |-> 0, v |-> Undefined]

\* what a read of a deleted block may give: what was there, or what the
\* allocator has put in its place
FreedReads(v) == {v, Undefined, Null}

\* Value::operator=(const Value &other) with other an element (a scalar
\* here, so add_ref has nothing to count): release(*this) first, then
\* other._un and other._storage are read.  The set of the outcomes: the new
\* handle, the store, and whether a deleted block was read.
copy_assign(h, other, st) ==
    LET st1 == release(h, st)
        freed == other.slot # 0 /\ ~st1[other.slot].live
    IN {[h |-> ScalarHandle(x), store |-> st1, freed_read |-> freed] :
           x \in IF freed THEN FreedReads(other.v) ELSE {other.v}}

\* a = a[index]
AssignElement ==
    /\ op.name \in {"none", "copy"}
    /\ \E index \in 0..MaxShared :
       \E other \in {element_at(hnd.a, index, store)} :
       \E m \in copy_assign(hnd.a, other, store) :
          /\ hnd' = [hnd EXCEPT !.a = m.h]
          /\ store' = m.store
          /\ op' = [name |-> "assign_element", calls |-> 0, index |-> index,
                    element |-> other.v, freed_read |-> m.freed_read]
    /\ UNCHANGED Apart

AssignNext == CopyConstruct \/ AssignElement
AssignSpec == ShareInit /\ [][AssignNext]_vars

\* C36: after a = a[index] no deleted container has been read and a holds
\* what the element held, also when a was the only owner of the container
C36_AssignFromOwnElement ==
    op.name = "assign_element" =>
        /\ ~op.freed_read
        /\ Content(hnd.a, store) = op.element

\* with a second owner of the container the assignment reads a live block
C36_SharedWitness ==
    /\ op.name = "assign_element"
    /\ hnd.b.ref # 0 /\ store[hnd.b.ref].live /\ store[hnd.b.ref].refcnt = 1
    /\ ~op.freed_read
    /\ Content(hnd.a, store) = IntV("int32", 1)

(***************************************************************************)
(* The Serializer and the owners of the Value it renders                   *)
(* hnd.a is the caller's handle (none when the Serializer was constructed  *)
(* from a temporary), hnd.b the Value on _stack; store holds the block of  *)
(* the root container.  The containers nested in it are owned by its       *)
(* elements alone and are deleted with it.                                 *)
(***************************************************************************)
OwnedValues ==
    {Arr(<<IntV("int32", 1), Str(<<CH_a>>, FALSE), Null>>),
     Arr(<<Arr(<<IntV("int32", 1), Null>>), IntV("int32", 1)>>),
     Arr(<<IntV("int32", 1)>>),
     Arr(<<>>),
     Obj(<<KeyValue(<<CH_a>>, IntV("int32", 1)), KeyValue(<<CH_b>>, Arr(<<Null, Null>>))>>),
     Obj(<<KeyValue(<<CH_a>>, Undefined), KeyValue(<<CH_b>>, Bool(TRUE)),
           KeyValue(<<CH_n>>, Null)>>),
     Arr(<<Bool(TRUE), Arr(<<>>), Str(<<CH_a, CH_b>>, FALSE), Null>>),
     IntV("int32", 1),
     Str(<<CH_a>>, FALSE)}

\* Serializer ser(v) with v a named Value of the caller, or
\* Serializer ser(Value(...)) with a temporary that is gone after the
\* constructor: _stack({v}) holds a copy
OwnerInit ==
    /\ sval \in OwnedValues
    /\ \E fmt \in Formats : ser = Serializer(fmt, sval)
    /\ sout = <<>>
    /\ chunks = <<>>
    /\ \E kept \in BOOLEAN :
       \E m \in {Construct(sval, <<>>)} :
          /\ hnd = [a |-> IF kept THEN m.h ELSE NoHandle, b |-> m.h, c |-> NoHandle]
          /\ store = IF kept THEN add_ref(m.h, m.store) ELSE m.store
    /\ op = [name |-> "none", calls |-> 0]
    /\ recv = Undefined
    /\ ParserIdle
    /\ OneShotIdle
    /\ ThreadsIdle

\* a StateArray or StateObject on _stack: a pair of iterators into a container
CursorsOnStack(s) ==
    \E i \in 1..Len(s.stack) : s.stack[i].k \in {"StateArray", "StateObject"}

\* the iterators on _stack point into a deleted container
Dangling(s, st) == CursorsOnStack(s) /\ st # <<>> /\ ~st[1].live

\* what next() does to the owners: Value v = std::get<Value>(st) adds a
\* reference, _stack.pop_back() and the end of next() each release one
next_owners(s, h, st) ==
    IF s.stack # <<>> /\ s.stack[Len(s.stack)].k = "Value"
    THEN [h |-> NoHandle, store |-> release(h, release(h, add_ref(h, st)))]
    ELSE [h |-> h, store |-> st]

\* one call of read().  With dangling iterators it reads deleted memory:
\* the chunk is what the memory still holds, or the serialization breaks off
ReadOwned ==
    /\ Len(chunks) < MaxReads
    /\ ser.stack # <<>>
    /\ \E m \in {next_owners(ser, hnd.b, store)} :
          /\ hnd' = [hnd EXCEPT !.b = m.h]
          /\ store' = m.store
    /\ \/ ser' = read(ser)
       \/ Dangling(ser, store) /\ ser' = [ser EXCEPT !.stack = <<>>, !.out = <<>>]
    /\ chunks' = Append(chunks, ser'.out)
    /\ sout' = sout \o ser'.out
    /\ op' = [name |-> "read", calls |-> 0, freed_read |-> Dangling(ser, store)]
    /\ UNCHANGED <<p, pc, ret, input, fed, nwrites, proto, sval, val, bytes, outcome,
                 recv, blk, thr>>

\* the caller's Value goes out of scope while the Serializer is in use
DropHandle ==
    /\ hnd.a # NoHandle
    /\ ser.stack # <<>>
    /\ hnd' = [hnd EXCEPT !.a = NoHandle]
    /\ store' = release(hnd.a, store)
    /\ UNCHANGED <<p, pc, ret, input, fed, nwrites, proto, ser, sval, sout, chunks, val,
                 bytes, outcome, recv, op, blk, thr>>

OwnerNext == ReadOwned \/ DropHandle
OwnerSpec == OwnerInit /\ [][OwnerNext]_vars

\* C37: as long as the serialization is not complete, the container the
\* iterators on _stack point into has a reference count of at least 1 and
\* no read() has read a deleted container, whether or not the caller holds
\* a handle
C37_SerializerKeepsValue ==
    /\ CursorsOnStack(ser) => (store # <<>> /\ store[1].live /\ store[1].refcnt >= 1)
    /\ op.name = "read" => ~op.freed_read

\* with a handle kept by the caller the iterators stay valid to the end
C37_KeptWitness ==
    /\ hnd.a # NoHandle
    /\ CursorsOnStack(ser)
    /\ store[1].live /\ store[1].refcnt = 1
    /\ Len(chunks) = 2

(***************************************************************************)
(* write() after the value is complete                                     *)
(***************************************************************************)
\* C38: once a value has been parsed without error (the stack is empty),
\* a further write(chunk) changes nothing: handed a chunk, the parser
\* returns false at once, get_unprocessed_data() is the whole chunk, and
\* get_result(), is_error() and the calls of the preprocessor stay as they
\* were.
C38_WriteAfterCompletion ==
    [][(ParsedWithoutError /\ nwrites >= 1) =>
          /\ p'.state = <<>> /\ ~is_error(p')
          /\ get_result(p') = get_result(p)
          /\ p'.log = p.log
          /\ pc = "idle" =>
                /\ ~ret
                /\ pc' = "writing"
                /\ get_unprocessed_data(p') = SubSeq(input, fed + 1, fed')
          /\ pc = "writing" =>
                /\ pc' = "idle" /\ ret' = FALSE
                /\ get_unprocessed_data(p') = p.text
                /\ get_unprocessed_data(p') = SubSeq(input, fed - Len(p.text) + 1, fed)]_vars

\* [] was complete after the first write(); the write of the comma after
\* it has returned false and left the comma unprocessed
C38_Witness ==
    /\ input = <<LBRACKET, RBRACKET, COMMA>>
    /\ nwrites = 2 /\ pc = "idle" /\ ~ret
    /\ ParsedWithoutError
    /\ p.text = <<COMMA>>
    /\ get_unprocessed_data(p) = <<COMMA>>
    /\ get_result(p) = Arr(<<>>)

(***************************************************************************)
(* Equality and type                                                       *)
(***************************************************************************)
\* Values without custom types, among them strings and number-flagged
\* strings of the same bytes
EqValues ==
    {Undefined, Null, Bool(TRUE), Bool(FALSE),
     IntV("int32", 1), IntV("int64", 1), IntV("uint32", 1), Dbl(D_1_5),
     Str(<<CH_1>>, FALSE), Str(<<CH_1>>, TRUE), Str(<<CH_a>>, FALSE), Str(<<>>, FALSE),
     Arr(<<>>), Arr(<<Str(<<CH_1>>, FALSE)>>), Arr(<<Str(<<CH_1>>, TRUE)>>),
     Obj(<<>>), Obj(<<KeyValue(<<CH_a>>, IntV("int32", 1))>>)}

\* Value a = ..., b = ...
EqInit ==
    /\ val \in EqValues
    /\ recv \in EqValues
    /\ op = [name |-> "none"]
    /\ bytes = <<>> /\ outcome = [kind |-> "none"]
    /\ ParserIdle
    /\ SerializerIdle
    /\ SharingIdle
    /\ ThreadsIdle

\* a == b
Equals ==
    /\ op.name = "none"
    /\ op' = [name |-> "==", result |-> ValEq(val, recv)]
    /\ UNCHANGED <<p, pc, ret, input, fed, nwrites, proto, ser, sval, sout, chunks, val,
                 bytes, outcome, recv, hnd, store, blk, thr>>

EqNext == Equals
EqSpec == EqInit /\ [][EqNext]_vars

\* C39: two Values that compare equal have the same type(); a
\* number-flagged string and a plain string of the same bytes are not equal
C39_EqualValuesSameType ==
    (op.name = "==" /\ op.result) => type(val) = type(recv)

\* the integer 1 held as int32 and as int64: same type, compared unequal
C39_Witness ==
    /\ op.name = "==" /\ ~op.result
    /\ val = IntV("int32", 1) /\ recv = IntV("int64", 1)
    /\ type(val) = type(recv)

(***************************************************************************)
(* Every string through stringify and parse                                *)
(***************************************************************************)
\* C40: for every byte string s, control bytes, quotation marks and
\* backslashes included, parse(stringify(Value(s))) returns a string whose
\* get_string() is s.
C40_AnyStringRoundTrip ==
    (TripEnded("text") /\ val.t = "string" /\ ~val.num)
        => /\ pc = "returned"
           /\ outcome.kind = "value"
           /\ type(outcome.value) = "string"
           /\ get_string(outcome.value) = val.s

\* a string of a quotation mark, a backslash and a slash comes back as it was
C40_EscapedWitness ==
    /\ TripEnded("text") /\ pc = "returned"
    /\ val = Str(<<QUOTE, BACKSLASH, SLASH>>, FALSE)
    /\ outcome = [kind |-> "value", value |-> val]

====
